---- MODULE Spec2Model ----
(***************************************************************************)
(* A model of the `ask` command of bucket-robotics/productivity: the       *)
(* streaming client of the messages API (frame reader, content block       *)
(* accumulator, tool-call loop) and the incremental style printer.         *)
(*                                                                         *)
(* Strings are sequences of one-character strings.                         *)
(***************************************************************************)
EXTENDS Integers, Sequences, FiniteSets, TLC

VARIABLES
    \* ---- the Printer harness (SpecPrinter) ----
    p_pieces,     \* the input text, as the list of pieces it is made of
    p_pos,        \* number of characters of the text already passed to print
    p_printer,    \* Printer.buffer and Printer.style
    p_out,        \* Printer.writer: the write! calls made so far
    p_ops,        \* the calls made so far: "print" / "flush"
    p_held        \* some print call so far ended holding an unterminated tag prefix

printerVars == <<p_pieces, p_pos, p_printer, p_out, p_ops, p_held>>

VARIABLES
    \* ---- actual_main and the producer task it spawns (Spec) ----
    pc,             \* where actual_main stands
    messages,       \* original_query.messages
    new_message,    \* the flag of the outer while loop
    content_blocks, \* the BTreeMap<i64, ContentBlock> of the turn
    queue,          \* the mpsc channel between query_anthropic and actual_main
    producer,       \* the spawned query_anthropic task
    stdout,         \* what the Printers of the text blocks wrote
    fin,            \* the tool_use arm: blocks still to visit, the two vectors
    err,            \* the error actual_main returned, if any
    \* ---- history ----
    requests,       \* the queries sent so far, each with its messages
    sent,           \* number of events the service has sent so far
    tool_log,       \* the Tool::run calls made so far
    arrived,        \* per block: the partial_json fragments it received
    started,        \* the indices of the blocks of the turn, in order of creation
    parses,         \* get_input_value calls made during the current turn
    stops,          \* the stop reasons handled during the current turn
    received        \* the events received during the current turn (SpecBlocks)

mainVars == <<pc, messages, new_message, content_blocks, queue, producer, stdout,
              fin, err, requests, sent, tool_log, arrived, started, parses,
              stops, received>>

VARIABLES
    \* ---- the chunk loop of query_anthropic (SpecReader) ----
    r_stream,       \* the events of the response, as the service wrote them
    r_pos,          \* number of characters of the response body already read
    r_buffer,       \* partial_data_buffer
    r_sent,         \* the events sent to the message queue so far
    r_state,        \* "reading", then "ok" when query_anthropic has returned
    r_cut           \* history: some chunk ended inside the prefix of a data line

readerVars == <<r_stream, r_pos, r_buffer, r_sent, r_state, r_cut>>

VARIABLES
    \* ---- parse_text of response_parsing.rs (SpecMarkdown) ----
    md_input,       \* the Markdown events the parser has yielded so far
    md_st           \* the locals of parse_text and its output vector

markdownVars == <<md_input, md_st>>

VARIABLES
    \* ---- the software_version tool (SpecVersions) ----
    sv_now,         \* the clock (Instant::now), in ticks
    sv_last,        \* SoftwareVersionsTool.last_cargo_request_time
    sv_todo,        \* libraries of input.libraries still to fetch
    sv_times,       \* history: the times at which crates.io requests were issued
    sv_pc,          \* "idle", or "running" inside run
    sv_runs,        \* history: number of invocations of the tool so far
    \* ---- the read_files tool (SpecReadFiles) ----
    rf_cache,       \* allowed_read_paths of the access.json on disk
    rf_runs,        \* history: number of invocations of the tool so far
    rf_call         \* history: the last invocation, its input and what it did

toolVars == <<sv_now, sv_last, sv_todo, sv_times, sv_pc, sv_runs,
              rf_cache, rf_runs, rf_call>>

vars == <<printerVars, mainVars, readerVars, markdownVars, toolVars>>

(***************************************************************************)
(* Bounds of the model.                                                    *)
(***************************************************************************)
MaxPieces == 2      \* pieces per input text of the Printer harness
MaxOps == 3         \* print and flush calls per Printer run
MaxEvents == 4      \* events the remote service sends over one run
MaxRequests == 2    \* queries sent over one run
MaxDeltas == 1      \* text deltas per response of the reader harness
MaxPings == 130     \* events of the response of the queue harness
MaxListEvents == 10 \* Markdown events per text made of lists
MaxListDepth == 2   \* nesting depth of the lists
MaxStopAt == 2       \* end_turn comes among the first MaxStopAt events
MaxTail == 2         \* events of a response after its message_stop
MaxLibraries == 2    \* libraries per invocation of the software_version tool
MaxToolRuns == 2     \* invocations of a tool over one run
MaxTicks == 2        \* ticks a request takes, or that pass before an invocation
MaxMdEvents == 8    \* Markdown events per text given to parse_text

(***************************************************************************)
(* Generic helpers on sequences.                                           *)
(***************************************************************************)
None == <<>>
Some(x) == <<x>>

\* str::find(ch): the 1-based position of the first ch, 0 when there is none.
RECURSIVE FindFrom(_, _, _)
FindFrom(s, ch, i) ==
    IF i > Len(s) THEN 0
    ELSE IF s[i] = ch THEN i
    ELSE FindFrom(s, ch, i + 1)

Find(s, ch) == FindFrom(s, ch, 1)

Drop(s, n) == SubSeq(s, n + 1, Len(s))
Take(s, n) == SubSeq(s, 1, n)

RECURSIVE Flatten(_)
Flatten(ss) == IF ss = <<>> THEN <<>> ELSE Head(ss) \o Flatten(Tail(ss))

\* s contains t as a contiguous run
Contains(s, t) ==
    \E i \in 1..(Len(s) - Len(t) + 1) : SubSeq(s, i, i + Len(t) - 1) = t

(***************************************************************************)
(* printer.rs                                                              *)
(***************************************************************************)
\* console::Style::new()
StyleNew == [fg |-> "none", bold |-> FALSE, italic |-> FALSE]

T_red == <<"r", "e", "d">>
T_yellow == <<"y", "e", "l", "l", "o", "w">>
T_green == <<"g", "r", "e", "e", "n">>
T_blue == <<"b", "l", "u", "e">>
T_cyan == <<"c", "y", "a", "n">>
T_bold == <<"b", "o", "l", "d">>
T_italic == <<"i", "t", "a", "l", "i", "c">>

tag_to_style_no_bold(tag) ==
    CASE tag = T_red -> Some([StyleNew EXCEPT !.fg = "red"])
      [] tag = T_yellow -> Some([StyleNew EXCEPT !.fg = "yellow"])
      [] tag = T_green -> Some([StyleNew EXCEPT !.fg = "green"])
      [] tag = T_blue -> Some([StyleNew EXCEPT !.fg = "blue"])
      [] tag = T_cyan -> Some([StyleNew EXCEPT !.fg = "cyan"])
      [] tag = T_italic -> Some([StyleNew EXCEPT !.italic = TRUE])
      [] OTHER -> None

tag_to_style_any(tag) == Some([StyleNew EXCEPT !.bold = TRUE])

tag_to_style(tag) ==
    CASE tag = T_red -> Some([StyleNew EXCEPT !.fg = "red"])
      [] tag = T_yellow -> Some([StyleNew EXCEPT !.fg = "yellow"])
      [] tag = T_green -> Some([StyleNew EXCEPT !.fg = "green"])
      [] tag = T_blue -> Some([StyleNew EXCEPT !.fg = "blue"])
      [] tag = T_cyan -> Some([StyleNew EXCEPT !.fg = "cyan"])
      [] tag = T_bold -> Some([StyleNew EXCEPT !.bold = TRUE])
      [] tag = T_italic -> Some([StyleNew EXCEPT !.italic = TRUE])
      [] OTHER -> None

\* write!(&mut self.writer, "{}", self.style.apply_to(text)): one write call
Write(out, style, text) == Append(out, [style |-> style, text |-> text])

\* The length under which an unterminated "<..." run is held back.
HoldLimit == 10

HoldNever(text) == FALSE

HoldAlways(text) == TRUE

\* "if text.len() < 10": buffer the unterminated tag prefix
Hold(text) == Len(text) < HoldLimit

\* The loop of Printer::print over the unconsumed text.
RECURSIVE PrintLoop(_, _, _)
PrintLoop(text, style, out) ==
    IF text = <<>> THEN [buffer |-> <<>>, style |-> style, out |-> out]
    ELSE IF Head(text) = "<" THEN
        LET index == Find(text, ">") IN
        IF index > 0 THEN
            LET tag == SubSeq(text, 2, index - 1)
                closing == tag # <<>> /\ Head(tag) = "/"
                is_color_tag ==
                    IF closing THEN tag_to_style(Tail(tag)) # None
                    ELSE tag_to_style(tag) # None
                style2 ==
                    IF ~is_color_tag THEN style
                    ELSE IF closing THEN StyleNew
                    ELSE tag_to_style(tag)[1]
                out2 ==
                    IF is_color_tag THEN out
                    ELSE Write(out, style2, Take(text, index))
            IN  PrintLoop(Drop(text, index), style2, out2)
        ELSE IF Hold(text) THEN
            [buffer |-> text, style |-> style, out |-> out]
        ELSE PrintLoop(Tail(text), style, Write(out, style, <<"<">>))
    ELSE
        LET index == Find(text, "<") IN
        IF index > 0 THEN
            PrintLoop(Drop(text, index - 1), style,
                      Write(out, style, Take(text, index - 1)))
        ELSE [buffer |-> <<>>, style |-> style, out |-> Write(out, style, text)]

Printer_print_forget_buffer(pr, out, text) == PrintLoop(text, pr.style, out)

\* Printer::print(text) on a printer pr = [buffer, style] writing to out
Printer_print(pr, out, text) == PrintLoop(pr.buffer \o text, pr.style, out)

IsWhitespace(c) == c \in {" ", "\n", "\t", "\r"}

\* str::trim_end
RECURSIVE trim_end(_)
trim_end(s) ==
    IF s # <<>> /\ IsWhitespace(s[Len(s)]) THEN trim_end(Take(s, Len(s) - 1))
    ELSE s

Printer_flush_keep(pr, out) ==
    [buffer |-> pr.buffer, style |-> pr.style,
     out |-> Write(out, pr.style, trim_end(pr.buffer))]

\* Printer::flush
Printer_flush(pr, out) ==
    [buffer |-> <<>>, style |-> pr.style,
     out |-> Write(out, pr.style, trim_end(pr.buffer))]

\* Printer::new
Printer_new == [buffer |-> <<>>, style |-> StyleNew]

(***************************************************************************)
(* What a sequence of write calls puts on the sink.  console's             *)
(* Style::apply_to wraps the text in the style's escape sequences when     *)
(* colours are enabled and the style is not the plain one, also around an  *)
(* empty text (test_printer_streamed_tag_tag expects "\x1b[31m\x1b[0m"     *)
(* from the flush of an empty buffer under red).                           *)
(***************************************************************************)
ApplyTo(w, colors) ==
    IF colors /\ w.style # StyleNew
    THEN <<[esc |-> "set", style |-> w.style]>>
         \o [i \in 1..Len(w.text) |-> [ch |-> w.text[i]]]
         \o <<[esc |-> "reset"]>>
    ELSE [i \in 1..Len(w.text) |-> [ch |-> w.text[i]]]

RECURSIVE Bytes(_, _)
Bytes(out, colors) ==
    IF out = <<>> THEN <<>>
    ELSE ApplyTo(Head(out), colors) \o Bytes(Tail(out), colors)

\* The emitted characters, each with the style it was emitted under.
RECURSIVE StyledChars(_)
StyledChars(out) ==
    IF out = <<>> THEN <<>>
    ELSE [i \in 1..Len(Head(out).text) |->
            [ch |-> Head(out).text[i], style |-> Head(out).style]]
         \o StyledChars(Tail(out))

\* The emitted characters alone.
RECURSIVE Chars(_)
Chars(out) == IF out = <<>> THEN <<>> ELSE Head(out).text \o Chars(Tail(out))

(***************************************************************************)
(* anyhow errors: the chain of messages, outermost context first.          *)
(* Display ("{e}") shows the outermost message only.                       *)
(***************************************************************************)
Error(msg) == <<msg>>
WithContext(e, msg) == <<msg>> \o e
Display(e) == Head(e)

Ok(v) == [ok |-> TRUE, value |-> v]
Err(e) == [ok |-> FALSE, error |-> e]

(***************************************************************************)
(* serde_json::from_str::<Value> on the accumulated tool input.  The JSON  *)
(* texts of the model are written with the characters "1" and "-": the     *)
(* integers -?1+ parse, to their value; everything else, the empty string  *)
(* included, is a syntax error.                                            *)
(***************************************************************************)
RECURSIVE DigitsValue(_)
DigitsValue(s) ==
    IF s = <<>> THEN 0 ELSE 10 * DigitsValue(Take(s, Len(s) - 1)) + 1

AllOnes(s) == s # <<>> /\ \A i \in 1..Len(s) : s[i] = "1"

from_str(s) ==
    IF AllOnes(s) THEN Ok(DigitsValue(s))
    ELSE IF s # <<>> /\ Head(s) = "-" /\ AllOnes(Tail(s)) THEN Ok(0 - DigitsValue(Tail(s)))
    ELSE Err(Error(<<"JSON syntax error">>))

(***************************************************************************)
(* The events of the stream (AnthropicStreamResponse).  JSON maps are      *)
(* functions from the keys present; an absent Option field is None.        *)
(***************************************************************************)
get(map, key) == IF key \in DOMAIN map THEN Some(map[key]) ELSE None

StreamResponse(type, index, content_block, delta) ==
    [type |-> type, index |-> index, content_block |-> content_block, delta |-> delta]

Indices == {0, 1}

\* the tool each index of the model's service asks for, and the id it gives
ToolOf(i) == IF i = 0 THEN "tar" ELSE "read_files"
IdOf(i) == IF i = 0 THEN "toolu_0" ELSE "toolu_1"

TextFragment == <<"a", "<">>
JsonFragments == {<<"1">>, <<"-">>}

EvStartText(i) ==
    StreamResponse("content_block_start", Some(i),
                   Some([type |-> "text", text |-> <<>>]), None)
EvStartTool(i) ==
    StreamResponse("content_block_start", Some(i),
                   Some([type |-> "tool_use", id |-> IdOf(i), name |-> ToolOf(i)]), None)
EvTextDelta(i) ==
    StreamResponse("content_block_delta", Some(i), None,
                   Some([type |-> "text_delta", text |-> TextFragment]))
EvJsonDelta(i, f) ==
    StreamResponse("content_block_delta", Some(i), None,
                   Some([type |-> "input_json_delta", partial_json |-> f]))
EvStop(i) == StreamResponse("content_block_stop", Some(i), None, None)
EvMessageDelta(reason) ==
    StreamResponse("message_delta", None, None, Some([stop_reason |-> reason]))
EvPlain(type) == StreamResponse(type, None, None, None)

StopReasons == {"end_turn", "stop_sequence", "max_tokens", "tool_use"}

\* what the remote service may send, in any order
ServiceEvents ==
    {EvStartText(0)} \cup {EvStartTool(i) : i \in Indices}
    \cup {EvTextDelta(0)}
    \cup {EvJsonDelta(0, f) : f \in JsonFragments} \cup {EvJsonDelta(1, <<"1">>)}
    \cup {EvStop(0)}
    \cup {EvMessageDelta(r) : r \in StopReasons}
    \cup {EvPlain("error")}

(***************************************************************************)
(* anthropic_tools: the registry and the prerequisites of its tools.       *)
(***************************************************************************)
ToolNames == {"tar", "read_files"}

\* Tool::get_prequisites().binaries
get_prequisites(name) == IF name = "tar" THEN <<"tar">> ELSE <<>>

\* what Tool::run may return: its output, or an error of the tool
RunResults(name) ==
    {Ok(<<<<"output of", name>>>>),
     Err(WithContext(Error(<<"tool failure">>), <<"Running the tool", name>>))}

(***************************************************************************)
(* anthropic_client.rs: the content block processors.                      *)
(***************************************************************************)
\* TextContentBlock::new: Ok([block, out]) or Err
TextContentBlock_new(content_block, out) ==
    IF get(content_block, "text") # None THEN
        LET text == content_block.text
            r == Printer_print(Printer_new, out, text)
        IN  Ok([block |-> [kind |-> "text",
                           printer |-> [buffer |-> r.buffer, style |-> r.style],
                           accumulated_text |-> text],
                out |-> r.out])
    ELSE Ok([block |-> [kind |-> "text", printer |-> Printer_new,
                        accumulated_text |-> <<>>],
             out |-> out])

\* ToolUseContentBlock::new
ToolUseContentBlock_new(content_block) ==
    IF get(content_block, "id") = None THEN Err(Error(<<"No ID in tool invocation">>))
    ELSE IF get(content_block, "name") = None
    THEN Err(Error(<<"No Name in tool invocation">>))
    ELSE Ok([kind |-> "tool_use", id |-> content_block.id,
             name |-> content_block.name, accumulated_json |-> <<>>])

Text_process_delta_silent(block, delta, out) ==
    IF get(delta, "type") = None THEN Err(Error(<<"No type in the delta">>))
    ELSE IF delta.type # "text_delta" THEN Ok([block |-> block, out |-> out])
    ELSE IF get(delta, "text") = None THEN Err(Error(<<"No text in the delta">>))
    ELSE Ok([block |-> [block EXCEPT !.accumulated_text = @ \o delta.text],
             out |-> out])

\* TextContentBlock::process_delta
Text_process_delta(block, delta, out) ==
    IF get(delta, "type") = None THEN Err(Error(<<"No type in the delta">>))
    ELSE IF delta.type # "text_delta" THEN Ok([block |-> block, out |-> out])
    ELSE IF get(delta, "text") = None THEN Err(Error(<<"No text in the delta">>))
    ELSE
        LET r == Printer_print(block.printer, out, delta.text)
        IN  Ok([block |-> [block EXCEPT
                             !.accumulated_text = @ \o delta.text,
                             !.printer = [buffer |-> r.buffer, style |-> r.style]],
                out |-> r.out])

ToolUse_process_delta_prepend(block, delta, out) ==
    IF get(delta, "type") = None THEN Err(Error(<<"No type in the delta">>))
    ELSE IF delta.type # "input_json_delta" THEN Ok([block |-> block, out |-> out])
    ELSE IF get(delta, "partial_json") = None
    THEN Err(Error(<<"No partial_json in the delta">>))
    ELSE Ok([block |-> [block EXCEPT !.accumulated_json = delta.partial_json \o @],
             out |-> out])

ToolUse_process_delta(block, delta, out) ==
    IF get(delta, "type") = None THEN Err(Error(<<"No type in the delta">>))
    ELSE IF delta.type # "input_json_delta" THEN Ok([block |-> block, out |-> out])
    ELSE IF get(delta, "partial_json") = None
    THEN Err(Error(<<"No partial_json in the delta">>))
    ELSE Ok([block |-> [block EXCEPT !.accumulated_json = @ \o delta.partial_json],
             out |-> out])

\* ContentBlock::process_delta
process_delta(block, delta, out) ==
    IF block.kind = "text" THEN Text_process_delta(block, delta, out)
    ELSE ToolUse_process_delta(block, delta, out)

\* ContentBlock::finalize: the Printer of a text block is flushed
finalize(block, out) ==
    IF block.kind = "text" THEN
        LET r == Printer_flush(block.printer, out)
        IN  [block |-> [block EXCEPT !.printer = [buffer |-> r.buffer, style |-> r.style]],
             out |-> r.out]
    ELSE [block |-> block, out |-> out]

\* ToolUseContentBlock::get_input_value
get_input_value(block) ==
    LET r == from_str(block.accumulated_json)
    IN  IF r.ok THEN r
        ELSE Err(WithContext(r.error,
                    <<"Failed to parse accumulated JSON", block.accumulated_json>>))

get_original_content_block_lenient(block) ==
    IF block.kind = "text"
    THEN Ok([type |-> "text", text |-> block.accumulated_text])
    ELSE LET input == get_input_value(block)
         IN  Ok([type |-> "tool_use", id |-> block.id, name |-> block.name,
                 input |-> IF input.ok THEN input.value ELSE 0])

\* ContentBlock::get_original_content_block
get_original_content_block(block) ==
    IF block.kind = "text"
    THEN Ok([type |-> "text", text |-> block.accumulated_text])
    ELSE LET input == get_input_value(block)
         IN  IF input.ok
             THEN Ok([type |-> "tool_use", id |-> block.id, name |-> block.name,
                      input |-> input.value])
             ELSE input

\* the first binary of the prerequisites that which::which does not find
RECURSIVE FirstMissing(_, _)
FirstMissing(binaries, installed) ==
    IF binaries = <<>> THEN None
    ELSE IF Head(binaries) \notin installed THEN Some(Head(binaries))
    ELSE FirstMissing(Tail(binaries), installed)

\* ToolUseContentBlock::invoke_tool, in an environment where the binaries
\* `installed` are in the PATH and the tool's run returns run_result:
\* [result, ran], ran telling whether Tool::run was called
invoke_tool(block, installed, run_result) ==
    LET missing == FirstMissing(get_prequisites(block.name), installed)
        input == get_input_value(block)
    IN  IF missing # None
        THEN [result |-> Err(Error(<<"Binary not found in PATH", missing[1]>>)),
              ran |-> FALSE]
        ELSE IF ~input.ok
        THEN [result |-> Err(WithContext(input.error, <<"Parsing tool input">>)),
              ran |-> FALSE]
        ELSE [result |-> run_result, ran |-> TRUE]

\* the content of the tool_result: the tool's output, or
\* format!("An error occured invoking the tool: {e}") of the error wrapped
\* in the context "Invoking {name}"
tool_result_content(result, name) ==
    IF result.ok THEN result.value
    ELSE <<<<"An error occured invoking the tool:">>,
           Display(WithContext(result.error, <<"Invoking", name>>))>>

get_user_content_block_name_as_id(block, invoked) ==
    IF block.kind = "text" THEN None
    ELSE Some(Ok([type |-> "tool_result", tool_use_id |-> block.name,
                  content |-> tool_result_content(invoked.result, block.name)]))

\* ContentBlock::get_user_content_block, invoked being what invoke_tool
\* returned: None for a text block, Some(Ok(tool_result)) for a tool use
get_user_content_block(block, invoked) ==
    IF block.kind = "text" THEN None
    ELSE Some(Ok([type |-> "tool_result", tool_use_id |-> block.id,
                  content |-> tool_result_content(invoked.result, block.name)]))

ValuesDescending(blocks) ==
    LET n == Cardinality(DOMAIN blocks)
        asc == CHOOSE f \in [1..n -> DOMAIN blocks] :
                    \A i, j \in 1..n : i < j => f[i] > f[j]
    IN  asc

\* BTreeMap::values: the keys of the map in ascending order
Values(blocks) ==
    LET n == Cardinality(DOMAIN blocks)
        asc == CHOOSE f \in [1..n -> DOMAIN blocks] :
                    \A i, j \in 1..n : i < j => f[i] < f[j]
    IN  asc

(***************************************************************************)
(* main.rs: actual_main, and the task running query_anthropic.             *)
(***************************************************************************)
\* the capacity of the channel
QueueCapacity == 128

Message(role, content) == [role |-> role, content |-> content]

EmptyMap == [i \in {} |-> 0]

NoFin == [keys |-> <<>>, assistant |-> <<>>, user |-> <<>>, visited |-> <<>>, how |-> <<>>]

Fail(e) ==
    /\ pc' = "failed"
    /\ err' = e

MainInit ==
    /\ pc = "loop_head"
    /\ messages = <<Message("user", <<"question">>)>>
    /\ new_message = TRUE
    /\ content_blocks = EmptyMap
    /\ queue = <<>>
    /\ producer = "none"
    /\ stdout = <<>>
    /\ fin = NoFin
    /\ err = None
    /\ requests = <<>>
    /\ sent = 0
    /\ tool_log = <<>>
    /\ arrived = EmptyMap
    /\ started = <<>>
    /\ parses = 0
    /\ stops = <<>>
    /\ received = <<>>

\* "while new_message {": a new turn; the query is sent by the spawned task
StartTurn ==
    /\ pc = "loop_head"
    /\ new_message
    /\ Len(requests) < MaxRequests
    /\ content_blocks' = EmptyMap
    /\ new_message' = FALSE
    /\ queue' = <<>>
    /\ producer' = "running"
    /\ requests' = Append(requests, messages)
    /\ pc' = "recv"
    /\ arrived' = EmptyMap
    /\ started' = <<>>
    /\ parses' = 0
    /\ stops' = <<>>
    /\ received' = <<>>
    /\ UNCHANGED <<messages, stdout, fin, err, sent, tool_log>>
    /\ UNCHANGED <<printerVars, readerVars, markdownVars, toolVars>>

\* the loop ends: println!() and Ok(())
Return ==
    /\ pc = "loop_head"
    /\ ~new_message
    /\ pc' = "done"
    /\ UNCHANGED <<messages, new_message, content_blocks, queue, producer, stdout,
                   fin, err, requests, sent, tool_log, arrived, started, parses, stops>>
    /\ UNCHANGED received
    /\ UNCHANGED <<printerVars, readerVars, markdownVars, toolVars>>

Running == pc \notin {"done", "failed"}

HasRoomAlways(q) == TRUE

\* Sender::send completes at once only when the channel has a free slot;
\* otherwise it waits for one
HasRoom(q) == Len(q) < QueueCapacity

\* query_anthropic: one event decoded from the response is sent to the queue
ProducerSend ==
    /\ Running
    /\ producer = "running"
    /\ sent < MaxEvents
    /\ HasRoom(queue)
    /\ \E e \in ServiceEvents : queue' = Append(queue, e)
    /\ sent' = sent + 1
    /\ UNCHANGED <<pc, messages, new_message, content_blocks, producer, stdout, fin,
                   err, requests, tool_log, arrived, started, parses, stops>>
    /\ UNCHANGED received
    /\ UNCHANGED <<printerVars, readerVars, markdownVars, toolVars>>

\* query_anthropic: the response is exhausted, Ok(()); the sender is dropped
ProducerFinish ==
    /\ Running
    /\ producer = "running"
    /\ producer' = "ok"
    /\ UNCHANGED <<pc, messages, new_message, content_blocks, queue, stdout, fin,
                   err, requests, sent, tool_log, arrived, started, parses, stops>>
    /\ UNCHANGED received
    /\ UNCHANGED <<printerVars, readerVars, markdownVars, toolVars>>

\* query_anthropic: a non-success status or a failed chunk read, Err
ProducerFail ==
    /\ Running
    /\ producer = "running"
    /\ producer' = "failed"
    /\ UNCHANGED <<pc, messages, new_message, content_blocks, queue, stdout, fin,
                   err, requests, sent, tool_log, arrived, started, parses, stops>>
    /\ UNCHANGED received
    /\ UNCHANGED <<printerVars, readerVars, markdownVars, toolVars>>

Insert(map, key, value) ==
    [k \in DOMAIN map \cup {key} |-> IF k = key THEN value ELSE map[k]]

Turn(blocks, out) == [blocks |-> blocks, out |-> out]

on_content_block_delta_strict(blocks, out, message) ==
    IF message.index = None \/ message.delta = None
    THEN Ok(Turn(blocks, out))
    ELSE IF message.index[1] \notin DOMAIN blocks
    THEN Err(Error(<<"No content block for index">>))
    ELSE
        LET index == message.index[1]
            r == process_delta(blocks[index], message.delta[1], out)
        IN  IF r.ok
            THEN Ok(Turn([blocks EXCEPT ![index] = r.value.block], r.value.out))
            ELSE r

\* the "content_block_delta" arm on the blocks of the turn and the output
on_content_block_delta(blocks, out, message) ==
    IF message.index = None \/ message.delta = None
       \/ message.index[1] \notin DOMAIN blocks
    THEN Ok(Turn(blocks, out))
    ELSE
        LET index == message.index[1]
            r == process_delta(blocks[index], message.delta[1], out)
        IN  IF r.ok
            THEN Ok(Turn([blocks EXCEPT ![index] = r.value.block], r.value.out))
            ELSE r

\* the "content_block_start" arm
on_content_block_start(blocks, out, message) ==
    IF message.content_block = None \/ get(message.content_block[1], "type") = None
    THEN Ok(Turn(blocks, out))
    ELSE IF message.index = None THEN Err(Error(<<"No index in message">>))
    ELSE
        LET content_block == message.content_block[1]
            index == message.index[1]
        IN  IF content_block.type = "text" THEN
                LET r == TextContentBlock_new(content_block, out)
                IN  IF r.ok
                    THEN Ok(Turn(Insert(blocks, index, r.value.block), r.value.out))
                    ELSE r
            ELSE IF content_block.type = "tool_use" THEN
                IF get(content_block, "name") = None
                THEN Err(Error(<<"Tool name not provided">>))
                ELSE IF content_block.name \notin ToolNames
                THEN Err(Error(<<"Could not find tool with name", content_block.name>>))
                ELSE
                    LET r == ToolUseContentBlock_new(content_block)
                    IN  IF r.ok THEN Ok(Turn(Insert(blocks, index, r.value), out))
                        ELSE r
            ELSE Ok(Turn(blocks, out))

\* the "content_block_stop" arm
on_content_block_stop(blocks, out, message) ==
    IF message.index = None \/ message.index[1] \notin DOMAIN blocks
    THEN Ok(Turn(blocks, out))
    ELSE
        LET index == message.index[1]
            r == finalize(blocks[index], out)
        IN  Ok(Turn([blocks EXCEPT ![index] = r.block], r.out))

\* the arms that only touch the blocks and the output
on_block_event(blocks, out, message) ==
    CASE message.type = "content_block_delta" -> on_content_block_delta(blocks, out, message)
      [] message.type = "content_block_start" -> on_content_block_start(blocks, out, message)
      [] message.type = "content_block_stop" -> on_content_block_stop(blocks, out, message)
      [] message.type = "error" -> Err(Error(<<"Received error message">>))
      [] OTHER -> Ok(Turn(blocks, out))

\* the event creates (or replaces) the block of its index
Creates(message) ==
    /\ message.type = "content_block_start"
    /\ message.index # None
    /\ message.content_block # None
    /\ get(message.content_block[1], "type") \in {Some("text"), Some("tool_use")}

\* history: the fragments a tool-use block received since it was created
ArrivedAfter(message) ==
    IF Creates(message) THEN Insert(arrived, message.index[1], <<>>)
    ELSE IF /\ message.type = "content_block_delta"
            /\ message.index # None
            /\ message.delta # None
            /\ message.index[1] \in DOMAIN content_blocks
            /\ content_blocks[message.index[1]].kind = "tool_use"
            /\ get(message.delta[1], "type") = Some("input_json_delta")
            /\ get(message.delta[1], "partial_json") # None
    THEN [arrived EXCEPT ![message.index[1]] = Append(@, message.delta[1].partial_json)]
    ELSE arrived

\* history: the order in which the blocks were created
StartedAfter(message) ==
    IF Creates(message) THEN Append(started, message.index[1]) ELSE started

\* "content_block_delta", "content_block_start", "content_block_stop", "error"
\* and the types that are ignored
HandleBlockEvent(message) ==
    LET r == on_block_event(content_blocks, stdout, message)
    IN  IF r.ok
        THEN /\ content_blocks' = r.value.blocks
             /\ stdout' = r.value.out
             /\ arrived' = ArrivedAfter(message)
             /\ started' = StartedAfter(message)
             /\ UNCHANGED <<pc, err>>
        ELSE /\ Fail(r.error)
             /\ UNCHANGED <<content_blocks, stdout, arrived, started>>

StopReason_max_tokens_as_tool_use(message) ==
    IF message.delta[1].stop_reason = "max_tokens" THEN "tool_use"
    ELSE message.delta[1].stop_reason

StopReason_end_as_tool_use(message) ==
    IF message.delta[1].stop_reason \in {"end_turn", "stop_sequence"} THEN "tool_use"
    ELSE message.delta[1].stop_reason

StopReason_ignore_max_tokens(message) ==
    IF message.delta[1].stop_reason = "max_tokens" THEN "unknown"
    ELSE message.delta[1].stop_reason

\* stop_reason.as_str().unwrap()
StopReason(message) == message.delta[1].stop_reason

\* "message_delta"
HandleMessageDelta(message) ==
    IF message.delta = None \/ get(message.delta[1], "stop_reason") = None
    THEN UNCHANGED <<pc, err, fin, stops>>
    ELSE
        LET stop_reason == StopReason(message)
        IN  /\ stops' = Append(stops, message.delta[1].stop_reason)
            /\ IF stop_reason \in {"end_turn", "stop_sequence"}
               THEN pc' = "await" /\ UNCHANGED <<err, fin>>
               ELSE IF stop_reason = "max_tokens"
               THEN Fail(Error(<<"Maximum token count exceeded">>)) /\ UNCHANGED fin
               ELSE IF stop_reason = "tool_use"
               THEN /\ pc' = "tool_use"
                    /\ fin' = [NoFin EXCEPT !.keys = Values(content_blocks)]
                    /\ UNCHANGED err
               ELSE UNCHANGED <<pc, err, fin>>

\* one turn of the receive loop, on the event at the head of the queue
RecvMessage ==
    /\ pc = "recv"
    /\ queue # <<>>
    /\ queue' = Tail(queue)
    /\ LET message == Head(queue) IN
        IF message.type = "message_delta"
        THEN /\ HandleMessageDelta(message)
             /\ UNCHANGED <<content_blocks, stdout, arrived, started>>
        ELSE /\ HandleBlockEvent(message)
             /\ UNCHANGED <<fin, stops>>
    /\ UNCHANGED <<messages, new_message, producer, requests, sent, tool_log, parses>>
    /\ UNCHANGED <<printerVars, readerVars, markdownVars, toolVars>>

\* "while let Some(message) = rx.recv().await { match message.type ... }"
Recv ==
    /\ RecvMessage
    /\ UNCHANGED received

\* the same, with the event added to the history of the turn
RecvTraced ==
    /\ RecvMessage
    /\ received' = Append(received, Head(queue))

\* rx.recv() returns None: the queue is empty and the sender is dropped
RecvClosed ==
    /\ pc = "recv"
    /\ queue = <<>>
    /\ producer \in {"ok", "failed"}
    /\ pc' = "await"
    /\ UNCHANGED <<messages, new_message, content_blocks, queue, producer, stdout,
                   fin, err, requests, sent, tool_log, arrived, started, parses, stops>>
    /\ UNCHANGED received
    /\ UNCHANGED <<printerVars, readerVars, markdownVars, toolVars>>

\* The "tool_use" arm, one block of content_blocks.values() per step:
\* get_original_content_block()?, then get_user_content_block().await, which
\* for a tool use invokes the tool in the environment of that moment (the
\* binaries installed, what the tool's run returns).
\* fin.visited and fin.how are history: the indices visited, and for each
\* tool_result how it came about.
FinalizeBlock ==
    /\ pc = "tool_use"
    /\ fin.keys # <<>>
    /\ LET index == Head(fin.keys)
           block == content_blocks[index]
           original == get_original_content_block(block)
       IN  IF ~original.ok
           THEN /\ Fail(original.error)
                /\ parses' = parses + 1
                /\ UNCHANGED <<fin, tool_log>>
           ELSE IF block.kind = "text"
           THEN /\ fin' = [fin EXCEPT !.keys = Tail(@),
                                      !.assistant = Append(@, original.value),
                                      !.visited = Append(@, index)]
                /\ UNCHANGED <<pc, err, tool_log, parses>>
           ELSE \E installed \in SUBSET {"tar"} : \E run_result \in RunResults(block.name) :
                LET invoked == invoke_tool(block, installed, run_result)
                    user == get_user_content_block(block, invoked)
                    missing == FirstMissing(get_prequisites(block.name), installed)
                IN  /\ tool_log' =
                          IF invoked.ran
                          THEN Append(tool_log,
                                 [request |-> Len(requests), fin_no |-> Len(stops),
                                  index |-> index, id |-> block.id, name |-> block.name,
                                  input |-> get_input_value(block).value,
                                  fragments |-> arrived[index],
                                  result |-> invoked.result])
                          ELSE tool_log
                    /\ parses' = parses + (IF invoked.ran THEN 2 ELSE 1)
                    /\ IF user[1].ok
                       THEN /\ fin' = [keys |-> Tail(fin.keys),
                                       assistant |-> Append(fin.assistant, original.value),
                                       user |-> Append(fin.user, user[1].value),
                                       visited |-> Append(fin.visited, index),
                                       how |-> Append(fin.how,
                                                 [index |-> index, id |-> block.id,
                                                  missing |-> missing,
                                                  ran |-> invoked.ran,
                                                  result |-> invoked.result])]
                            /\ UNCHANGED <<pc, err>>
                       ELSE /\ Fail(user[1].error)
                            /\ UNCHANGED fin
    /\ UNCHANGED <<messages, new_message, content_blocks, queue, producer, stdout,
                   requests, sent, arrived, started, stops>>
    /\ UNCHANGED received
    /\ UNCHANGED <<printerVars, readerVars, markdownVars, toolVars>>

FinalizeEnd_replace ==
    /\ pc = "tool_use"
    /\ fin.keys = <<>>
    /\ messages' = <<Message("assistant", fin.assistant), Message("user", fin.user)>>
    /\ new_message' = TRUE
    /\ fin' = NoFin
    /\ pc' = "recv"
    /\ UNCHANGED <<content_blocks, queue, producer, stdout, err, requests, sent,
                   tool_log, arrived, started, parses, stops>>
    /\ UNCHANGED received
    /\ UNCHANGED <<printerVars, readerVars, markdownVars, toolVars>>

\* the end of the "tool_use" arm: the two messages are pushed
FinalizeEnd ==
    /\ pc = "tool_use"
    /\ fin.keys = <<>>
    /\ messages' = messages \o <<Message("assistant", fin.assistant),
                                 Message("user", fin.user)>>
    /\ new_message' = TRUE
    /\ fin' = NoFin
    /\ pc' = "recv"
    /\ UNCHANGED <<content_blocks, queue, producer, stdout, err, requests, sent,
                   tool_log, arrived, started, parses, stops>>
    /\ UNCHANGED received
    /\ UNCHANGED <<printerVars, readerVars, markdownVars, toolVars>>

AwaitResponse_ignore_error ==
    /\ pc = "await"
    /\ producer \in {"ok", "failed"}
    /\ pc' = "loop_head"
    /\ UNCHANGED <<messages, new_message, content_blocks, queue, producer, stdout,
                   fin, err, requests, sent, tool_log, arrived, started, parses, stops>>
    /\ UNCHANGED received
    /\ UNCHANGED <<printerVars, readerVars, markdownVars, toolVars>>

AwaitResponse_no_wait ==
    /\ pc = "await"
    /\ pc' = "loop_head"
    /\ UNCHANGED <<messages, new_message, content_blocks, queue, producer, stdout,
                   fin, err, requests, sent, tool_log, arrived, started, parses, stops>>
    /\ UNCHANGED received
    /\ UNCHANGED <<printerVars, readerVars, markdownVars, toolVars>>

\* "response.await?.context("During query")?"
AwaitResponse ==
    /\ pc = "await"
    /\ producer \in {"ok", "failed"}
    /\ IF producer = "ok"
       THEN pc' = "loop_head" /\ UNCHANGED err
       ELSE Fail(WithContext(Error(<<"transport error">>), <<"During query">>))
    /\ UNCHANGED <<messages, new_message, content_blocks, queue, producer, stdout,
                   fin, requests, sent, tool_log, arrived, started, parses, stops>>
    /\ UNCHANGED received
    /\ UNCHANGED <<printerVars, readerVars, markdownVars, toolVars>>

(***************************************************************************)
(* tools/software_versions.rs: SoftwareVersionsTool::run.  Time is counted *)
(* in ticks of half a second; a request to crates.io takes 0..MaxTicks     *)
(* ticks.                                                                  *)
(***************************************************************************)
\* Duration::from_secs(1), in ticks
CRATES_IO_RATE_LIMIT == 2

\* no call of read_files yet
NoCall == [paths |-> <<>>, prompted |-> FALSE, selection |-> {}, read |-> <<>>,
           returned |-> {}, denied |-> {}, before |-> {}, result |-> "none"]

\* SoftwareVersionsTool::new, and no access.json on disk
ToolsIdle ==
    /\ sv_now = 0
    /\ sv_last = None
    /\ sv_todo = 0
    /\ sv_times = <<>>
    /\ sv_pc = "idle"
    /\ sv_runs = 0
    /\ rf_cache = {}
    /\ rf_runs = 0
    /\ rf_call = NoCall

\* the tool is invoked with 1..MaxLibraries cargo libraries, some ticks after
\* the previous invocation returned
VersionsRun ==
    /\ sv_pc = "idle"
    /\ sv_runs < MaxToolRuns
    /\ \E n \in 1..MaxLibraries : sv_todo' = n
    /\ \E d \in 0..MaxTicks : sv_now' = sv_now + d
    /\ sv_pc' = "running"
    /\ sv_runs' = sv_runs + 1
    /\ UNCHANGED <<sv_last, sv_times, rf_cache, rf_runs, rf_call>>
    /\ UNCHANGED <<printerVars, mainVars, readerVars, markdownVars>>

\* one turn of "for library in input.libraries": the sleep if a last request
\* time is recorded and less than the limit has elapsed, then
\* get_crate_version; nothing assigns last_cargo_request_time
VersionsFetch ==
    /\ sv_pc = "running"
    /\ sv_todo > 0
    /\ LET issued == IF sv_last # None /\ sv_now - sv_last[1] < CRATES_IO_RATE_LIMIT
                     THEN sv_last[1] + CRATES_IO_RATE_LIMIT
                     ELSE sv_now
       IN  /\ sv_times' = Append(sv_times, issued)
           /\ \E d \in 0..MaxTicks : sv_now' = issued + d
    /\ sv_todo' = sv_todo - 1
    /\ UNCHANGED <<sv_last, sv_pc, sv_runs, rf_cache, rf_runs, rf_call>>
    /\ UNCHANGED <<printerVars, mainVars, readerVars, markdownVars>>

\* progress.finish_and_clear(); Ok(result.join("\n"))
VersionsReturn ==
    /\ sv_pc = "running"
    /\ sv_todo = 0
    /\ sv_pc' = "idle"
    /\ UNCHANGED <<sv_now, sv_last, sv_todo, sv_times, sv_runs, rf_cache, rf_runs, rf_call>>
    /\ UNCHANGED <<printerVars, mainVars, readerVars, markdownVars>>

(***************************************************************************)
(* anthropic_tools/filesystem.rs: ReadFilesTool::run.  A path is the       *)
(* sequence of its components, "/" first for an absolute path.             *)
(***************************************************************************)
\* std::env::current_dir()
current_dir == <<"/", "cwd">>

\* the keys of paths_to_reason_mapping the model may ask for: two relative
\* paths, and the first of them written as an absolute path
PathKeys == {<<"a">>, <<"b">>, <<"/", "cwd", "a">>}

\* Path::join: an absolute path replaces the base
join(base, path) ==
    IF path # <<>> /\ Head(path) = "/" THEN path ELSE base \o path

\* the orders in which a HashMap may yield its keys
Orders(keys) ==
    {order \in [1..Cardinality(keys) -> keys] :
        \A i, j \in 1..Cardinality(keys) : i # j => order[i] # order[j]}

all_allowed_any(paths, cache) == \E i \in 1..Len(paths) : paths[i] \in cache

\* paths.iter().all(|path| access_cache.allowed_read_paths.contains(path))
all_allowed(paths, cache) == \A i \in 1..Len(paths) : paths[i] \in cache

\* the elements of s at the indices of the set, in ascending order
RECURSIVE SelectSeq2(_, _)
SelectSeq2(s, indices) ==
    IF s = <<>> THEN <<>>
    ELSE LET rest == SelectSeq2(Take(s, Len(s) - 1), indices)
         IN  IF Len(s) \in indices THEN Append(rest, s[Len(s)]) ELSE rest

\* one invocation of the tool: the cache is loaded, the paths are joined to
\* the current directory, the user is prompted unless all paths are allowed,
\* the files are read and the cache is written back
ReadFilesRun ==
    /\ rf_runs < MaxToolRuns
    /\ \E keys \in SUBSET PathKeys : \E order \in Orders(keys) :
       \E interact \in {Err(Error(<<"From multi-select">>))}
                            \cup {Ok(selection) : selection \in SUBSET (1..Len(order))} :
       \E readable \in SUBSET {join(current_dir, key) : key \in PathKeys} :
       \E write \in {"ok", "create failed", "write failed"} :
        LET paths == [i \in 1..Len(order) |-> join(current_dir, order[i])]
            allowed == all_allowed(paths, rf_cache)
            selection == IF allowed \/ ~interact.ok THEN {} ELSE interact.value
            files_to_read == IF allowed THEN paths ELSE SelectSeq2(paths, selection)
            disallowed_files ==
                IF allowed THEN {}
                ELSE {paths[i] : i \in 1..Len(paths)} \ {paths[i] : i \in selection}
            access_cache ==
                IF allowed THEN rf_cache
                ELSE (rf_cache \cup {paths[i] : i \in selection}) \ disallowed_files
        IN  IF ~allowed /\ ~interact.ok
            THEN /\ rf_call' = [paths |-> paths, prompted |-> TRUE, selection |-> {},
                                read |-> <<>>, returned |-> {}, denied |-> {},
                                before |-> rf_cache, result |-> "err"]
                 /\ rf_cache' = rf_cache
            ELSE /\ rf_call' = [paths |-> paths, prompted |-> ~allowed,
                                selection |-> selection,
                                read |-> files_to_read,
                                returned |-> IF write = "ok"
                                             THEN {files_to_read[i] : i \in 1..Len(files_to_read)}
                                                    \cap readable
                                             ELSE {},
                                denied |-> disallowed_files,
                                before |-> rf_cache,
                                result |-> IF write = "ok" THEN "ok" ELSE "err"]
                 /\ rf_cache' = CASE write = "ok" -> access_cache
                                  [] write = "create failed" -> rf_cache
                                  [] OTHER -> {}
    /\ rf_runs' = rf_runs + 1
    /\ UNCHANGED <<sv_now, sv_last, sv_todo, sv_times, sv_pc, sv_runs>>
    /\ UNCHANGED <<printerVars, mainVars, readerVars, markdownVars>>

(***************************************************************************)
(* response_parsing.rs: parse_text, event by event.  The text is given as  *)
(* the events pulldown_cmark (with TextMergeStream) yields for it.         *)
(***************************************************************************)
MdStart(tag, level) == [ev |-> "Start", tag |-> tag, level |-> level, text |-> <<>>]
MdEnd(tag) == [ev |-> "End", tag |-> tag, level |-> 0, text |-> <<>>]
MdText(text) == [ev |-> "Text", tag |-> "", level |-> 0, text |-> text]
\* Start(Tag::List(index)): index is the first ordinal of an ordered list
MdList(index) == [ev |-> "Start", tag |-> "List", level |-> 0, text |-> <<>>, index |-> index]

W_Thoughts == <<"T", "h", "o", "u", "g", "h", "t", "s">>
W_thoughts == <<"t", "h", "o", "u", "g", "h", "t", "s">>
W_x == <<"x">>

MdTexts == {W_Thoughts, W_thoughts, W_x}

\* u8::to_ascii_lowercase, on the letters of MdTexts
to_ascii_lowercase(c) == IF c = "T" THEN "t" ELSE c

\* str::eq_ignore_ascii_case
eq_ignore_ascii_case(a, b) ==
    /\ Len(a) = Len(b)
    /\ \A i \in 1..Len(a) : to_ascii_lowercase(a[i]) = to_ascii_lowercase(b[i])

\* a TextOutput; `at` is history: the number of the event that pushed it
TextOutput(kind, text, at) == [kind |-> kind, text |-> text, at |-> at]

\* the "#"s of a heading and a space
RECURSIVE HeadingPrefix(_)
HeadingPrefix(level) == IF level = 0 THEN <<" ">> ELSE <<"#">> \o HeadingPrefix(level - 1)

\* Vec::truncate
truncate(v, len) == IF len < Len(v) THEN Take(v, len) ELSE v

\* the locals of parse_text before the first event
ParseStart ==
    [output |-> <<>>,
     code_block_language |-> None,
     accumulated_text |-> <<>>,
     emphasised |-> FALSE,
     strong |-> FALSE,
     list_indent |-> None,
     list_index |-> <<>>,
     current_heading_level |-> 0,
     thoughts_heading |-> None,
     cuts |-> <<>>]       \* history: the events at which the output was truncated

on_heading_start_keep(st, event, at) ==
    LET output == IF st.thoughts_heading # None
                  THEN truncate(st.output, st.thoughts_heading[1])
                  ELSE st.output
    IN  [st EXCEPT !.cuts = IF st.thoughts_heading # None THEN Append(@, at) ELSE @,
                   !.output = Append(output, TextOutput("Text", HeadingPrefix(event.level), at)),
                   !.current_heading_level = event.level]

\* Event::Start(Tag::Heading { level, .. })
on_heading_start(st, event, at) ==
    LET output == IF st.thoughts_heading # None
                  THEN truncate(st.output, st.thoughts_heading[1])
                  ELSE st.output
    IN  [st EXCEPT !.thoughts_heading = None,
                   !.cuts = IF st.thoughts_heading # None THEN Append(@, at) ELSE @,
                   !.output = Append(output, TextOutput("Text", HeadingPrefix(event.level), at)),
                   !.current_heading_level = event.level]

\* Event::Text(text_content)
on_text(st, event, at) ==
    LET thoughts_heading ==
            IF st.current_heading_level = 1 /\ eq_ignore_ascii_case(event.text, W_Thoughts)
            THEN Some(Len(st.output) - 1)
            ELSE st.thoughts_heading
        st1 == [st EXCEPT !.thoughts_heading = thoughts_heading]
    IN  IF st.code_block_language # None
        THEN [st1 EXCEPT !.accumulated_text = @ \o event.text]
        ELSE IF st.strong \/ st.current_heading_level = 1
        THEN [st1 EXCEPT !.output = Append(@, TextOutput("Bold", event.text, at))]
        ELSE IF st.emphasised
        THEN [st1 EXCEPT !.output = Append(@, TextOutput("Italic", event.text, at))]
        ELSE [st1 EXCEPT !.output = Append(@, TextOutput("Text", event.text, at))]

\* format!("{}", num), for the ordinals of the model
format_num(num) ==
    IF num < 10 THEN <<<<"0", "1", "2", "3", "4", "5", "6", "7", "8", "9">>[num + 1]>>
    ELSE <<"1", <<"0", "1", "2", "3", "4", "5", "6", "7", "8", "9">>[num - 9]>>

\* Event::Start(Tag::Item)
on_item_start(st, event, at) ==
    LET indent == IF st.list_indent = None THEN 0 ELSE st.list_indent[1]
        spaces == [i \in 1..indent |-> " "]
        n == Len(st.list_index)
    IN  IF n > 0 /\ st.list_index[n] # None
        THEN [st EXCEPT
                !.output = Append(@, TextOutput("Text",
                              spaces \o format_num(st.list_index[n][1]) \o <<".", " ">>, at)),
                !.list_index[n] = Some(@[1] + 1)]
        ELSE [st EXCEPT
                !.output = Append(@, TextOutput("Text", spaces \o <<"bullet", " ">>, at))]

\* one turn of "for event in TextMergeStream::new(parser) { match event ... }"
on_event(st, event, at) ==
    CASE event.ev = "Start" /\ event.tag = "Heading" -> on_heading_start(st, event, at)
      [] event.ev = "End" /\ event.tag = "Heading" ->
            [st EXCEPT !.current_heading_level = 0,
                       !.output = Append(@, TextOutput("Newline", <<>>, at))]
      [] event.ev = "Start" /\ event.tag = "Paragraph" -> st
      [] event.ev = "End" /\ event.tag = "Paragraph" ->
            [st EXCEPT !.output = @ \o <<TextOutput("Newline", <<>>, at),
                                         TextOutput("Newline", <<>>, at)>>]
      [] event.ev = "Start" /\ event.tag = "Emphasis" -> [st EXCEPT !.emphasised = TRUE]
      [] event.ev = "End" /\ event.tag = "Emphasis" -> [st EXCEPT !.emphasised = FALSE]
      [] event.ev = "Start" /\ event.tag = "Strong" -> [st EXCEPT !.strong = TRUE]
      [] event.ev = "End" /\ event.tag = "Strong" -> [st EXCEPT !.strong = FALSE]
      [] event.ev = "Start" /\ event.tag = "List" ->
            IF st.list_indent = None
            THEN [st EXCEPT !.list_index = Append(@, event.index),
                            !.list_indent = Some(1)]
            ELSE [st EXCEPT !.list_index = Append(@, event.index),
                            !.output = Append(@, TextOutput("Newline", <<>>, at)),
                            !.list_indent = Some(@[1] + 2)]
      [] event.ev = "End" /\ event.tag = "List" ->
            IF st.list_indent = None THEN st
            ELSE IF st.list_indent = Some(1)
            THEN [st EXCEPT !.list_indent = None,
                            !.output = Append(@, TextOutput("Newline", <<>>, at))]
            ELSE [st EXCEPT !.list_indent = Some(@[1] - 2)]
      [] event.ev = "Start" /\ event.tag = "Item" -> on_item_start(st, event, at)
      [] event.ev = "End" /\ event.tag = "Item" ->
            [st EXCEPT !.output = Append(@, TextOutput("Newline", <<>>, at))]
      [] event.ev = "Text" -> on_text(st, event, at)
      [] OTHER -> st

\* the block that is open after the events of input: "" when none is
RECURSIVE OpenBlock(_)
OpenBlock(input) ==
    IF input = <<>> THEN ""
    ELSE IF input[Len(input)].ev = "Start" THEN input[Len(input)].tag
    ELSE IF input[Len(input)].ev = "End" THEN ""
    ELSE OpenBlock(Take(input, Len(input) - 1))

\* the events the parser may yield next: headings of level 1 and 2 and
\* paragraphs, each holding at most one (merged) text
MdNextEvents(input) ==
    IF OpenBlock(input) = ""
    THEN {MdStart("Heading", 1), MdStart("Heading", 2), MdStart("Paragraph", 0)}
    ELSE {MdEnd(OpenBlock(input))}
         \cup (IF input[Len(input)].ev = "Text" THEN {} ELSE {MdText(t) : t \in MdTexts})

MarkdownIdle ==
    /\ md_input = <<>>
    /\ md_st = ParseStart

\* the next event of the text is handled
MdEvent ==
    /\ Len(md_input) < MaxMdEvents
    /\ \E event \in MdNextEvents(md_input) :
        /\ md_input' = Append(md_input, event)
        /\ md_st' = on_event(md_st, event, Len(md_input) + 1)
    /\ UNCHANGED <<printerVars, mainVars, readerVars, toolVars>>

PrinterIdle ==
    /\ p_pieces = <<>>
    /\ p_pos = 0
    /\ p_printer = Printer_new
    /\ p_out = <<>>
    /\ p_ops = <<>>
    /\ p_held = FALSE

InitMarkdown ==
    /\ ToolsIdle
    /\ MarkdownIdle
    /\ MainInit
    /\ PrinterIdle
    /\ r_stream = <<>>
    /\ r_pos = 0
    /\ r_buffer = <<>>
    /\ r_sent = <<>>
    /\ r_state = "ok"
    /\ r_cut = FALSE

NextMarkdown == MdEvent

SpecMarkdown == InitMarkdown /\ [][NextMarkdown]_vars

(***************************************************************************)
(* parse_text on lists: ordered and unordered, nested up to MaxListDepth,  *)
(* a nested list standing inside an item of the enclosing list.            *)
(***************************************************************************)
\* the lists and items that are open after the events of input, outermost
\* first
RECURSIVE OpenStack(_)
OpenStack(input) ==
    IF input = <<>> THEN <<>>
    ELSE LET rest == OpenStack(Take(input, Len(input) - 1))
             event == input[Len(input)]
         IN  IF event.ev = "Start" THEN Append(rest, event.tag)
             ELSE IF event.ev = "End" THEN Take(rest, Len(rest) - 1)
             ELSE rest

\* the events the parser may yield next for a text made of lists
MdNextListEvents(input) ==
    LET stack == OpenStack(input)
        depth == Cardinality({n \in 1..Len(stack) : stack[n] = "List"})
        last == input[Len(input)]
        lists == {MdList(None), MdList(Some(1))}
    IN  IF stack = <<>> THEN lists
        ELSE IF stack[Len(stack)] = "List"
        THEN {MdStart("Item", 0)} \cup (IF last.ev = "Start" THEN {} ELSE {MdEnd("List")})
        ELSE {MdEnd("Item")}
             \cup (IF last = MdStart("Item", 0) THEN {MdText(W_x)} ELSE {})
             \cup (IF depth < MaxListDepth /\ (last = MdStart("Item", 0) \/ last.ev = "Text")
                   THEN lists ELSE {})

\* the next event of the text is handled
MdListEvent ==
    /\ Len(md_input) < MaxListEvents
    /\ \E event \in MdNextListEvents(md_input) :
        /\ md_input' = Append(md_input, event)
        /\ md_st' = on_event(md_st, event, Len(md_input) + 1)
    /\ UNCHANGED <<printerVars, mainVars, readerVars, toolVars>>

SpecMarkdownLists == InitMarkdown /\ [][MdListEvent]_vars

ReaderIdle ==
    /\ r_stream = <<>>
    /\ r_pos = 0
    /\ r_buffer = <<>>
    /\ r_sent = <<>>
    /\ r_state = "ok"
    /\ r_cut = FALSE

Init == MainInit /\ PrinterIdle /\ ReaderIdle /\ MarkdownIdle /\ ToolsIdle

Next ==
    \/ StartTurn
    \/ Return
    \/ ProducerSend
    \/ ProducerFinish
    \/ ProducerFail
    \/ Recv
    \/ RecvClosed
    \/ FinalizeBlock
    \/ FinalizeEnd
    \/ AwaitResponse


Spec == Init /\ [][Next]_vars

NextVersions == VersionsRun \/ VersionsFetch \/ VersionsReturn

SpecVersions == Init /\ [][NextVersions]_vars

SpecReadFiles == Init /\ [][ReadFilesRun]_vars

(***************************************************************************)
(* The queue harness: the response is a long run of ping events, which     *)
(* actual_main ignores, so that the channel fills up.                      *)
(***************************************************************************)
\* the n-th event of the response; its index tells the pings apart
EvPing(n) == StreamResponse("ping", Some(n), None, None)

\* query_anthropic: the next ping of the response is sent to the queue
ProducerSendPing ==
    /\ Running
    /\ producer = "running"
    /\ sent < MaxPings
    /\ HasRoom(queue)
    /\ queue' = Append(queue, EvPing(sent + 1))
    /\ sent' = sent + 1
    /\ UNCHANGED <<pc, messages, new_message, content_blocks, producer, stdout, fin,
                   err, requests, tool_log, arrived, started, parses, stops>>
    /\ UNCHANGED received
    /\ UNCHANGED <<printerVars, readerVars, markdownVars, toolVars>>

NextQueue ==
    \/ StartTurn
    \/ Return
    \/ ProducerSendPing
    \/ ProducerFinish
    \/ ProducerFail
    \/ Recv
    \/ RecvClosed
    \/ AwaitResponse

SpecQueue == Init /\ [][NextQueue]_vars

(***************************************************************************)
(* The turn-end harness: a response of MaxPings events in which end_turn   *)
(* may come among the first MaxStopAt events and all the others are pings. *)
(* The tasks are scheduled fairly: the runtime runs every task that can    *)
(* make a step, and the service delivers the whole response.               *)
(***************************************************************************)
\* query_anthropic: the next event of the response is sent to the queue
ProducerSendTurnEnd ==
    /\ Running
    /\ producer = "running"
    /\ sent < MaxPings
    /\ HasRoom(queue)
    /\ \E e \in {EvPing(sent + 1)}
                  \cup (IF sent < MaxStopAt THEN {EvMessageDelta("end_turn")} ELSE {}) :
            queue' = Append(queue, e)
    /\ sent' = sent + 1
    /\ UNCHANGED <<pc, messages, new_message, content_blocks, producer, stdout, fin,
                   err, requests, tool_log, arrived, started, parses, stops>>
    /\ UNCHANGED received
    /\ UNCHANGED <<printerVars, readerVars, markdownVars, toolVars>>

\* query_anthropic: the last event of the response has been sent, Ok(())
ProducerFinishAtEnd ==
    /\ sent = MaxPings
    /\ ProducerFinish

NextTurnEnd ==
    \/ StartTurn
    \/ Return
    \/ ProducerSendTurnEnd
    \/ ProducerFinishAtEnd
    \/ Recv
    \/ RecvClosed
    \/ AwaitResponse

SpecTurnEnd ==
    /\ Init
    /\ [][NextTurnEnd]_vars
    /\ WF_vars(StartTurn)
    /\ WF_vars(Return)
    /\ WF_vars(ProducerSendTurnEnd)
    /\ WF_vars(ProducerFinishAtEnd)
    /\ WF_vars(Recv)
    /\ WF_vars(RecvClosed)
    /\ WF_vars(AwaitResponse)

(***************************************************************************)
(* The block harness: a service that sends a text block with a header      *)
(* text, a tool use, their deltas and stops in any order, the order of the *)
(* received events being recorded.                                         *)
(***************************************************************************)
HeaderText == <<"h">>

EvStartTextWith(i, text) ==
    StreamResponse("content_block_start", Some(i),
                   Some([type |-> "text", text |-> text]), None)

BlockEvents ==
    {EvStartTextWith(0, HeaderText), EvTextDelta(0), EvStop(0),
     EvStartTool(1), EvJsonDelta(1, <<"1">>), EvStop(1), EvJsonDelta(0, <<"1">>),
     EvMessageDelta("tool_use"), EvMessageDelta("end_turn")}

\* query_anthropic: one event decoded from the response is sent to the queue
ProducerSendBlock ==
    /\ Running
    /\ producer = "running"
    /\ sent < MaxEvents
    /\ HasRoom(queue)
    /\ \E e \in BlockEvents : queue' = Append(queue, e)
    /\ sent' = sent + 1
    /\ UNCHANGED <<pc, messages, new_message, content_blocks, producer, stdout, fin,
                   err, requests, tool_log, arrived, started, parses, stops>>
    /\ UNCHANGED received
    /\ UNCHANGED <<printerVars, readerVars, markdownVars, toolVars>>

NextBlocks ==
    \/ StartTurn
    \/ Return
    \/ ProducerSendBlock
    \/ ProducerFinish
    \/ RecvTraced
    \/ RecvClosed
    \/ FinalizeBlock
    \/ FinalizeEnd
    \/ AwaitResponse

SpecBlocks == Init /\ [][NextBlocks]_vars

(***************************************************************************)
(* The Printer harness: a text is passed to one Printer in successive      *)
(* print calls that cut it at arbitrary positions; flush may be called at  *)
(* any time.                                                               *)
(***************************************************************************)
S_red_a == <<"<", "r", "e", "d", ">", "a">>
S_red_close == <<"<", "/", "r", "e", "d", ">">>
S_bold == <<"<", "b", "o", "l", "d", ">">>
S_bold_close == <<"<", "/", "b", "o", "l", "d", ">">>
S_text == <<"a", " ">>
S_lt == <<"<">>
S_unknown == <<"<", "x", ">">>

Pieces == {S_red_a, S_red_close, S_bold, S_bold_close, S_text, S_lt, S_unknown}

PieceSeqs == UNION {[1..n -> Pieces] : n \in 1..MaxPieces}

p_text == Flatten(p_pieces)

InitPrinter ==
    /\ ToolsIdle
    /\ p_pieces \in PieceSeqs
    /\ p_pos = 0
    /\ p_printer = Printer_new
    /\ p_out = <<>>
    /\ p_ops = <<>>
    /\ p_held = FALSE
    /\ MainInit
    /\ ReaderIdle
    /\ MarkdownIdle

PrinterPrint ==
    /\ Len(p_ops) < MaxOps
    /\ \E k \in 1..(Len(p_text) - p_pos) :
        LET r == Printer_print(p_printer, p_out, SubSeq(p_text, p_pos + 1, p_pos + k))
        IN  /\ p_printer' = [buffer |-> r.buffer, style |-> r.style]
            /\ p_out' = r.out
            /\ p_pos' = p_pos + k
            /\ p_held' = (p_held \/ r.buffer # <<>>)
    /\ p_ops' = Append(p_ops, "print")
    /\ UNCHANGED p_pieces
    /\ UNCHANGED <<mainVars, readerVars, markdownVars, toolVars>>

PrinterFlush ==
    /\ Len(p_ops) < MaxOps
    /\ LET r == Printer_flush(p_printer, p_out)
       IN  /\ p_printer' = [buffer |-> r.buffer, style |-> r.style]
           /\ p_out' = r.out
    /\ p_ops' = Append(p_ops, "flush")
    /\ UNCHANGED <<p_pieces, p_pos, p_held>>
    /\ UNCHANGED <<mainVars, readerVars, markdownVars, toolVars>>

NextPrinter == PrinterPrint \/ PrinterFlush

SpecPrinter == InitPrinter /\ [][NextPrinter]_vars

(***************************************************************************)
(* The same harness on texts with unrecognized tags and with a '<' run     *)
(* that reaches the hold limit without a '>'.                              *)
(***************************************************************************)
S_unknown_close == <<"<", "/", "x", ">">>
S_long == <<"<", "b", "b", "b", "b", "b", "b", "b", "b", "b">>

EdgePieces == {S_long, S_unknown, S_unknown_close, S_red_a, S_bold, S_lt, S_text}

EdgePieceSeqs == UNION {[1..n -> EdgePieces] : n \in 1..MaxPieces}

InitPrinterEdge ==
    /\ ToolsIdle
    /\ p_pieces \in EdgePieceSeqs
    /\ p_pos = 0
    /\ p_printer = Printer_new
    /\ p_out = <<>>
    /\ p_ops = <<>>
    /\ p_held = FALSE
    /\ MainInit
    /\ ReaderIdle
    /\ MarkdownIdle

SpecPrinterEdge == InitPrinterEdge /\ [][NextPrinter]_vars

(***************************************************************************)
(* Properties of the Printer (SpecPrinter).                                *)
(***************************************************************************)
Last(s) == s[Len(s)]

\* print followed by flush on a fresh Printer, the whole text in one call
OneShot(text) ==
    LET r == Printer_print(Printer_new, <<>>, text)
    IN  Printer_flush([buffer |-> r.buffer, style |-> r.style], r.out)

\* Every '<' of the text opens a recognized tag, and the opening and closing
\* tags match as pairs.
RECURSIVE WellTaggedFrom(_, _)
WellTaggedFrom(text, open) ==
    IF text = <<>> THEN open = <<>>
    ELSE IF Head(text) = "<" THEN
        LET index == Find(text, ">")
            tag == SubSeq(text, 2, index - 1)
        IN  /\ index > 0
            /\ IF tag # <<>> /\ Head(tag) = "/"
               THEN /\ open # <<>>
                    /\ Head(open) = Tail(tag)
                    /\ WellTaggedFrom(Drop(text, index), Tail(open))
               ELSE /\ tag \in {T_red, T_yellow, T_green, T_blue, T_cyan, T_bold, T_italic}
                    /\ WellTaggedFrom(Drop(text, index), <<tag>> \o open)
    ELSE WellTaggedFrom(Tail(text), open)

WellTagged(text) == WellTaggedFrom(text, <<>>)

\* The run so far is: the whole text in print calls, then flush calls.
PrintsThenFlush ==
    \A i, j \in 1..Len(p_ops) : (i < j /\ p_ops[i] = "flush") => p_ops[j] = "flush"

WholeTextFlushed ==
    /\ p_pos = Len(p_text)
    /\ p_ops # <<>>
    /\ Last(p_ops) = "flush"
    /\ PrintsThenFlush

\* C3: for a text of recognized, matching tags only, the styled characters
\* written after the final flush are those of printing the text in one call,
\* however the text was cut over the print calls.
C3_SplitInvariance ==
    (WellTagged(p_text) /\ WholeTextFlushed)
        => StyledChars(p_out) = StyledChars(OneShot(p_text).out)

\* "<red>a</red>" passed in two print calls that cut it inside a tag, then
\* flushed
C3_Witness ==
    /\ p_pieces = <<S_red_a, S_red_close>>
    /\ p_ops = <<"print", "print", "flush">>
    /\ p_held
    /\ p_pos = Len(p_text)
    /\ StyledChars(p_out) = <<[ch |-> "a", style |-> [StyleNew EXCEPT !.fg = "red"]]>>

FlushAfterFlush ==
    /\ p_ops # <<>>
    /\ Last(p_ops) = "flush"
    /\ p_ops' = Append(p_ops, "flush")

\* C4 as stated: a flush directly after a flush writes nothing to the output,
\* whether or not the terminal has colours enabled.
C4_SecondFlushWritesNothing ==
    [][FlushAfterFlush =>
        \A colors \in BOOLEAN : Bytes(p_out', colors) = Bytes(p_out, colors)]_vars

\* C4 as amended: a flush directly after a flush writes no character of text;
\* it writes nothing at all under the plain style or with colours disabled.
C4_SecondFlushWritesNoText ==
    [][FlushAfterFlush =>
        /\ Chars(p_out') = Chars(p_out)
        /\ Bytes(p_out', FALSE) = Bytes(p_out, FALSE)
        /\ p_printer.style = StyleNew => Bytes(p_out', TRUE) = Bytes(p_out, TRUE)]_vars

\* two flushes in a row, the first of which wrote a held "<..." run
C4_Witness ==
    /\ Len(p_ops) >= 3
    /\ p_ops[Len(p_ops)] = "flush"
    /\ p_ops[Len(p_ops) - 1] = "flush"
    /\ p_out[Len(p_out) - 1].text # <<>>
    /\ p_out[Len(p_out)].text = <<>>

TagTexts ==
    UNION {{<<"<">> \o t \o <<">">>, <<"<", "/">> \o t \o <<">">>} :
            t \in {T_red, T_yellow, T_green, T_blue, T_cyan, T_bold, T_italic}}

\* a recognized tag stands in the output as literal characters
LiteralTag(out) == \E t \in TagTexts : Contains(Chars(out), t)

\* C5 as stated: with print calls only (flushes at the end), no recognized tag
\* is ever written as literal characters, wherever it stands in the text.
C5_NoRecognizedTagLiteral == PrintsThenFlush => ~LiteralTag(p_out)

\* The recognized tag that starts at position i of the text is where the
\* Printer looks for a tag: no other '<' stands between the previous '>' (or
\* the start of the text) and position i.
TagAt(text, i) ==
    \E t \in TagTexts :
        i + Len(t) - 1 <= Len(text) /\ SubSeq(text, i, i + Len(t) - 1) = t

OpenBefore(text, i) ==
    \E j \in 1..(i - 1) :
        text[j] = "<" /\ \A k \in (j + 1)..(i - 1) : text[k] # ">"

TagsAtScanPoints(text) ==
    \A i \in 1..Len(text) : TagAt(text, i) => ~OpenBefore(text, i)

\* C5 as amended: a recognized tag that is not preceded by an unclosed '<' is
\* never written as literal characters, however it is cut over print calls,
\* and no call changes what was written before it.
C5_CleanTagNeverLiteral ==
    /\ []((PrintsThenFlush /\ TagsAtScanPoints(p_text)) => ~LiteralTag(p_out))
    /\ [][Take(p_out', Len(p_out)) = p_out]_vars

\* "<red>a</red>" cut inside both tags: only a red "a" is written
C5_Witness ==
    /\ p_pieces = <<S_red_a, S_red_close>>
    /\ p_ops = <<"print", "print">>
    /\ p_held
    /\ p_pos = Len(p_text)
    /\ StyledChars(p_out) = <<[ch |-> "a", style |-> [StyleNew EXCEPT !.fg = "red"]]>>
    /\ p_printer.buffer = <<>>

(***************************************************************************)
(* The frame reader: the chunk loop of query_anthropic on a response body  *)
(* that reqwest delivers in chunks cut at arbitrary positions.             *)
(*                                                                         *)
(* The body is a server-sent event stream: per event a line "e:" (the      *)
(* event field), a line "data: " followed by the JSON of the event, and an *)
(* empty line.  The JSON of an event is written "{" c "}", c being one     *)
(* character that stands for the members of the object.                    *)
(***************************************************************************)
DataPrefix == <<"d", "a", "t", "a", ":", " ">>

WireEvents ==
    {EvStartText(0), EvTextDelta(0), EvStop(0), EvPlain("message_stop")}

\* stands for a data line whose text is not the JSON of an event
Malformed == EvPlain("malformed")

\* serde_json::to_string of an event, as the service writes it
Json(e) ==
    <<"{",
      CASE e = EvStartText(0) -> "s"
        [] e = EvTextDelta(0) -> "t"
        [] e = EvStop(0) -> "p"
        [] e = EvPlain("message_stop") -> "z"
        [] e = Malformed -> "x",
      "}">>

Frame(e) == <<"e", ":", "\n">> \o DataPrefix \o Json(e) \o <<"\n", "\n">>

RECURSIVE Wire(_)
Wire(events) == IF events = <<>> THEN <<>> ELSE Frame(Head(events)) \o Wire(Tail(events))

\* serde_json::from_str::<AnthropicStreamResponse>
from_str_response(data) ==
    IF /\ Len(data) = 3
       /\ data[1] = "{"
       /\ data[3] = "}"
       /\ \E e \in WireEvents : Json(e) = data
    THEN Ok(CHOOSE e \in WireEvents : Json(e) = data)
    ELSE Err(Error(<<"Parsing response">>))

\* str::lines: the text is cut at each "\n"; a last line without "\n" counts
RECURSIVE Lines(_)
Lines(text) ==
    IF text = <<>> THEN <<>>
    ELSE LET index == Find(text, "\n")
         IN  IF index = 0 THEN <<text>>
             ELSE <<Take(text, index - 1)>> \o Lines(Drop(text, index))

\* str::strip_prefix("data: ")
strip_prefix(line) ==
    IF Len(line) >= Len(DataPrefix) /\ Take(line, Len(DataPrefix)) = DataPrefix
    THEN Some(Drop(line, Len(DataPrefix)))
    ELSE None

\* "for line in chunk_str.lines() { ... }"
RECURSIVE ProcessLines(_, _, _)
ProcessLines(lines, buffer, queued) ==
    IF lines = <<>> THEN [buffer |-> buffer, queued |-> queued]
    ELSE
        LET line == IF buffer = <<>> THEN Head(lines) ELSE buffer \o Head(lines)
            data == strip_prefix(line)
        IN  IF data = None THEN ProcessLines(Tail(lines), <<>>, queued)
            ELSE
                LET response == from_str_response(data[1])
                IN  IF ~response.ok THEN ProcessLines(Tail(lines), line, queued)
                    ELSE IF response.value.type = "message_stop"
                    THEN [buffer |-> <<>>, queued |-> Append(queued, response.value)]
                    ELSE ProcessLines(Tail(lines), <<>>, Append(queued, response.value))

\* the complete, valid responses of the harness: a text block is started,
\* receives deltas and is stopped, and the message is stopped
ReaderStreams ==
    {<<EvStartText(0)>> \o [i \in 1..n |-> EvTextDelta(0)]
        \o <<EvStop(0), EvPlain("message_stop")>> : n \in 0..MaxDeltas}

r_wire == Wire(r_stream)

\* a chunk that ends after p characters ends inside the "data: " of a line
CutInPrefix(wire, p) ==
    /\ p < Len(wire)
    /\ \E j \in 1..(Len(DataPrefix) - 1) :
        /\ p >= j
        /\ SubSeq(wire, p - j + 1, p) = Take(DataPrefix, j)
        /\ (p = j \/ wire[p - j] = "\n")

InitReader ==
    /\ ToolsIdle
    /\ r_stream \in ReaderStreams
    /\ r_pos = 0
    /\ r_buffer = <<>>
    /\ r_sent = <<>>
    /\ r_state = "reading"
    /\ r_cut = FALSE
    /\ MainInit
    /\ PrinterIdle
    /\ MarkdownIdle

\* "while let Some(chunk) = response.chunk().await": one chunk of k characters
ReaderChunk ==
    /\ r_state = "reading"
    /\ \E k \in 1..(Len(r_wire) - r_pos) :
        LET r == ProcessLines(Lines(SubSeq(r_wire, r_pos + 1, r_pos + k)), r_buffer, r_sent)
        IN  /\ r_buffer' = r.buffer
            /\ r_sent' = r.queued
            /\ r_pos' = r_pos + k
            /\ r_cut' = (r_cut \/ CutInPrefix(r_wire, r_pos + k))
    /\ UNCHANGED <<r_stream, r_state>>
    /\ UNCHANGED <<printerVars, mainVars, markdownVars, toolVars>>

\* response.chunk() returns None: Ok(())
ReaderFinish ==
    /\ r_state = "reading"
    /\ r_pos = Len(r_wire)
    /\ r_state' = "ok"
    /\ UNCHANGED <<r_stream, r_pos, r_buffer, r_sent, r_cut>>
    /\ UNCHANGED <<printerVars, mainVars, markdownVars, toolVars>>

NextReader == ReaderChunk \/ ReaderFinish

\* s with x inserted after its first k elements
InsertAt(s, k, x) == Take(s, k) \o <<x>> \o Drop(s, k)

\* the responses of ReaderStreams with one malformed data line among them
MalformedStreams ==
    UNION {{InsertAt(s, k, Malformed) : k \in 0..(Len(s) - 1)} : s \in ReaderStreams}

InitReaderMalformed ==
    /\ ToolsIdle
    /\ r_stream \in MalformedStreams
    /\ r_pos = 0
    /\ r_buffer = <<>>
    /\ r_sent = <<>>
    /\ r_state = "reading"
    /\ r_cut = FALSE
    /\ MainInit
    /\ PrinterIdle
    /\ MarkdownIdle

SpecReaderMalformed == InitReaderMalformed /\ [][NextReader]_vars

SpecReader == InitReader /\ [][NextReader]_vars

\* responses that go on after message_stop: a text block is started, the
\* message is stopped, and up to MaxTail further events follow
TailStreams ==
    UNION {{<<EvStartText(0), EvPlain("message_stop")>> \o tail :
                tail \in [1..n -> {EvTextDelta(0), EvStop(0)}]} : n \in 1..MaxTail}

InitReaderTail ==
    /\ ToolsIdle
    /\ r_stream \in TailStreams
    /\ r_pos = 0
    /\ r_buffer = <<>>
    /\ r_sent = <<>>
    /\ r_state = "reading"
    /\ r_cut = FALSE
    /\ MainInit
    /\ PrinterIdle
    /\ MarkdownIdle

SpecReaderTail == InitReaderTail /\ [][NextReader]_vars

(***************************************************************************)
(* Properties of the frame reader (SpecReader).                            *)
(***************************************************************************)
\* the accumulator of actual_main on a sequence of events: the blocks of
\* the turn, or the error it returns
RECURSIVE Accumulate(_, _, _)
Accumulate(events, blocks, out) ==
    IF events = <<>> THEN Ok(Turn(blocks, out))
    ELSE LET r == on_block_event(blocks, out, Head(events))
         IN  IF r.ok THEN Accumulate(Tail(events), r.value.blocks, r.value.out)
             ELSE r

\* the finalized content blocks, in the order of content_blocks.values()
Finalized(events) ==
    LET r == Accumulate(events, EmptyMap, <<>>)
    IN  IF r.ok
        THEN Ok([k \in 1..Len(Values(r.value.blocks)) |->
                    get_original_content_block(r.value.blocks[Values(r.value.blocks)[k]])])
        ELSE r

OneChunk(wire) == ProcessLines(Lines(wire), <<>>, <<>>).queued

\* C1: when the whole response was read, whatever the chunks it came in,
\* the finalized content blocks are those of reading it as one chunk.
C1_FragmentationInvariance ==
    r_state = "ok" => Finalized(r_sent) = Finalized(OneChunk(r_wire))

\* read as one chunk, the events sent are those the service wrote
OneChunkReadsAll ==
    r_stream # <<>> => OneChunk(r_wire) = r_stream

\* when no chunk ended inside the "data: " of a line, the events sent are
\* those of reading the response as one chunk
InvariantWhenPrefixWhole ==
    (r_state = "ok" /\ ~r_cut) => r_sent = OneChunk(r_wire)

\* a response read in more than one chunk, one of them ending inside a JSON
\* text, with all its events sent
CutInsideJson ==
    /\ r_state = "reading"
    /\ r_buffer # <<>>
    /\ Len(r_buffer) > Len(DataPrefix)
    /\ r_sent # <<>>

(***************************************************************************)
(* Properties of the tool-call loop (Spec).                                *)
(***************************************************************************)
StrictlyAscending(s) == \A i, j \in 1..Len(s) : i < j => s[i] < s[j]

Range(s) == {s[i] : i \in 1..Len(s)}

\* the tool-use blocks of the turn whose received fragments, concatenated in
\* arrival order, are not a JSON text
UnparsableBlocks ==
    {i \in DOMAIN content_blocks :
        /\ content_blocks[i].kind = "tool_use"
        /\ ~from_str(Flatten(arrived[i])).ok}

\* C2: at a message_delta with stop_reason tool_use the blocks of the turn
\* are visited in strictly ascending index order, whatever the order in
\* which they were created and fed: the blocks visited so far followed by
\* those still to visit are the indices of the turn in ascending order, the
\* assistant content holds the echo of the visited blocks in that order, and
\* the tools run during one such finalization ran in ascending index order.
C2_AscendingFinalization ==
    /\ pc = "tool_use" =>
        /\ StrictlyAscending(fin.visited \o fin.keys)
        /\ Range(fin.visited \o fin.keys) = DOMAIN content_blocks
        /\ Len(fin.assistant) = Len(fin.visited)
        /\ \A k \in 1..Len(fin.visited) :
               Ok(fin.assistant[k]) = get_original_content_block(content_blocks[fin.visited[k]])
    /\ \A i, j \in 1..Len(tool_log) :
           (/\ i < j
            /\ tool_log[i].request = tool_log[j].request
            /\ tool_log[i].fin_no = tool_log[j].fin_no)
           => tool_log[i].index < tool_log[j].index

\* block 1 was created and fed before block 0; block 0 was visited first
C2_Witness ==
    /\ pc = "tool_use"
    /\ started = <<1, 0>>
    /\ arrived[1] # <<>>
    /\ fin.visited = <<0, 1>>
    /\ tool_log # <<>>
    /\ Last(tool_log).index = 1

\* C6: the input a tool is run with, and the input echoed in the assistant
\* content, is the JSON parse of the concatenation in arrival order of the
\* partial_json fragments the block received; and get_input_value is not
\* called in a turn before a message_delta with stop_reason tool_use was
\* handled.
C6_InputIsParseOfConcatenation ==
    /\ \A i \in 1..Len(tool_log) :
           Ok(tool_log[i].input) = from_str(Flatten(tool_log[i].fragments))
    /\ pc = "tool_use" =>
           \A k \in 1..Len(fin.visited) :
               content_blocks[fin.visited[k]].kind = "tool_use" =>
                   Ok(fin.assistant[k].input) = from_str(Flatten(arrived[fin.visited[k]]))
    /\ parses > 0 => "tool_use" \in Range(stops)

\* the fragments "-" and "1" arrived in this order, the tool ran with -1
C6_Witness ==
    /\ tool_log # <<>>
    /\ Last(tool_log).fragments = << <<"-">>, <<"1">> >>
    /\ Last(tool_log).input = 0 - 1
    /\ pc = "tool_use"
    /\ fin.assistant # <<>>
    /\ Last(fin.assistant).input = 0 - 1

\* the message of invoke_tool for a prerequisite that is not in the PATH
MissingBinaryMessage(binary) == <<"Binary not found in PATH", binary>>

\* the finalization has not failed, unless at a later block whose JSON does
\* not parse
NotAbortedByTool ==
    \/ pc = "tool_use"
    \/ pc = "failed" /\ fin.keys # <<>> /\ Head(fin.keys) \in UnparsableBlocks

\* a tool use whose prerequisite binary was not found did not run the tool,
\* did not fail actual_main and gave a tool_result with the block's id
MissingPrerequisiteHandled ==
    \A k \in 1..Len(fin.how) :
        fin.how[k].missing # None =>
            /\ ~fin.how[k].ran
            /\ \A i \in 1..Len(tool_log) :
                   (tool_log[i].request = Len(requests) /\ tool_log[i].fin_no = Len(stops))
                   => tool_log[i].index # fin.how[k].index
            /\ fin.user[k].type = "tool_result"
            /\ fin.user[k].tool_use_id = fin.how[k].id
            /\ NotAbortedByTool

\* C7: a tool use whose prerequisite binary is not found does not run the
\* tool and yields a tool_result with the block's id whose content carries
\* the message describing the missing binary, and actual_main goes on.
C7_MissingPrerequisiteReported ==
    /\ MissingPrerequisiteHandled
    /\ \A k \in 1..Len(fin.how) :
           fin.how[k].missing # None =>
               MissingBinaryMessage(fin.how[k].missing[1]) \in Range(fin.user[k].content)

\* an error returned by the run of a tool did not fail actual_main and gave
\* a tool_result with the block's id
RunFailureHandled ==
    \A k \in 1..Len(fin.how) :
        (fin.how[k].ran /\ ~fin.how[k].result.ok) =>
            /\ fin.user[k].type = "tool_result"
            /\ fin.user[k].tool_use_id = fin.how[k].id
            /\ NotAbortedByTool

\* C9: an error returned by the run of a tool does not fail actual_main: it
\* is turned into the content of a tool_result with the block's id (the
\* content carries a message of that error), and actual_main goes on.
C9_RunFailureBecomesContent ==
    /\ RunFailureHandled
    /\ \A k \in 1..Len(fin.how) :
           (fin.how[k].ran /\ ~fin.how[k].result.ok) =>
               \E m \in Range(fin.how[k].result.error) : m \in Range(fin.user[k].content)

\* the end of a finalization sets new_message and returns to the receive loop
FinalizationContinues ==
    [][(pc = "tool_use" /\ pc' # "tool_use" /\ pc' # "failed")
         => (pc' = "recv" /\ new_message'
             /\ messages' = messages \o <<Message("assistant", fin.assistant),
                                          Message("user", fin.user)>>)]_vars

\* a finalization in which the binary of the tool was missing came to its end
ToolFailuresSurvived ==
    /\ pc = "loop_head"
    /\ new_message
    /\ Len(requests) = 1
    /\ Len(messages) = 3
    /\ Len(messages[3].content) = 1
    /\ messages[3].content[1].content =
           << <<"An error occured invoking the tool:">>, <<"Invoking", "tar">> >>

\* C8: once a message_delta with stop_reason max_tokens was handled,
\* actual_main has returned the error "Maximum token count exceeded", and
\* from then on no request is sent and no tool is run.
C8_MaxTokensAborts ==
    /\ []("max_tokens" \in Range(stops) =>
            /\ pc = "failed"
            /\ err = Error(<<"Maximum token count exceeded">>))
    /\ [][("max_tokens" \in Range(stops)) =>
            /\ requests' = requests
            /\ tool_log' = tool_log
            /\ messages' = messages]_vars

\* max_tokens arrived after a finalization had set new_message, with events
\* still waiting in the queue
C8_Witness ==
    /\ pc = "failed"
    /\ stops = <<"tool_use", "max_tokens">>
    /\ new_message
    /\ queue # <<>>
    /\ Len(requests) < MaxRequests

AscendingSeq(S) ==
    CHOOSE f \in [1..Cardinality(S) -> S] :
        \A i, j \in 1..Cardinality(S) : i < j => f[i] < f[j]

\* the echo of every block of the turn, in index order
ExpectedEcho ==
    LET asc == AscendingSeq(DOMAIN content_blocks)
    IN  [k \in 1..Len(asc) |-> get_original_content_block(content_blocks[asc[k]]).value]

\* the ids of the tool-use blocks of the turn, in index order
ExpectedIds ==
    LET asc == AscendingSeq(DOMAIN content_blocks)
        IsToolUse(i) == content_blocks[i].kind = "tool_use"
        tools == SelectSeq(asc, IsToolUse)
    IN  [k \in 1..Len(tools) |-> content_blocks[tools[k]].id]

\* C11: the messages change only at the end of a tool round, which appends
\* exactly two messages: an assistant message echoing every block of the
\* turn in index order, then a user message holding one tool_result per
\* tool-use block of the turn, in index order and with that block's id
\* (nothing for a text block); and every tool round that ends appends them.
C11_RoundAppendsTwoMessages ==
    /\ [][messages' # messages =>
            /\ pc = "tool_use"
            /\ Len(messages') = Len(messages) + 2
            /\ Take(messages', Len(messages)) = messages
            /\ messages'[Len(messages) + 1] = Message("assistant", ExpectedEcho)
            /\ messages'[Len(messages) + 2].role = "user"
            /\ LET results == messages'[Len(messages) + 2].content
               IN  /\ Len(results) = Len(ExpectedIds)
                   /\ \A k \in 1..Len(results) :
                          /\ results[k].type = "tool_result"
                          /\ results[k].tool_use_id = ExpectedIds[k]]_vars
    /\ [][(pc = "tool_use" /\ pc' = "recv") => messages' # messages]_vars

\* a round with the text block 0 and the tool-use block 1 came to its end
C11_Witness ==
    /\ pc = "recv"
    /\ new_message
    /\ Len(messages) = 3
    /\ Len(messages[2].content) = 2
    /\ messages[2].content[1].type = "text"
    /\ messages[2].content[2].type = "tool_use"
    /\ Len(messages[3].content) = 1
    /\ messages[3].content[1].tool_use_id = IdOf(1)

EndReasons == {"end_turn", "stop_sequence"}

\* the stop reason of the turn (the first one handled) ends the conversation
TurnEnded == stops # <<>> /\ Head(stops) \in EndReasons

C12_WitnessStopSequence ==
    /\ pc = "done"
    /\ stops = <<"stop_sequence">>
    /\ queue # <<>>

(***************************************************************************)
(* More properties of the frame reader (SpecReader).                       *)
(***************************************************************************)
\* the position where the line holding character p of the body starts
RECURSIVE LineStart(_, _)
LineStart(wire, p) ==
    IF p <= 1 THEN 1
    ELSE IF wire[p - 1] = "\n" THEN p
    ELSE LineStart(wire, p - 1)

\* a chunk that ends after p characters cuts a data line: characters of the
\* line lie on both sides of the cut
CutsDataLine(wire, p) ==
    /\ p >= 1
    /\ p < Len(wire)
    /\ wire[p] # "\n"
    /\ wire[p + 1] # "\n"
    /\ wire[LineStart(wire, p)] = "d"

\* the part of the cut line that was read
CutLine(wire, p) == SubSeq(wire, LineStart(wire, p), p)

\* number of events whose JSON text lies wholly in the first p characters
RECURSIVE EventsRead(_, _)
EventsRead(events, p) ==
    IF events = <<>> THEN 0
    ELSE IF p >= Len(Frame(Head(events))) - 2
    THEN 1 + EventsRead(Tail(events), p - Len(Frame(Head(events))))
    ELSE 0

\* the part of a cut data line that was read is the pending fragment, no
\* event is sent before its line was read, and at the end every event of
\* the response was sent
PendingFragmentKept ==
    /\ (r_state = "reading" /\ CutsDataLine(r_wire, r_pos)) =>
           r_buffer = CutLine(r_wire, r_pos)
    /\ Len(r_sent) <= EventsRead(r_stream, r_pos)
    /\ r_state # "ok" \/ r_stream = <<>> \/ r_sent = r_stream

\* C13: wherever in a data line (prefix or JSON body) a chunk ends, the part
\* read is kept as the pending fragment and joined with the next chunk, so
\* that no event is lost and none is sent before its line is complete.
C13_PendingFragmentKept == PendingFragmentKept

\* the same, as long as no chunk has ended inside the "data: " of a line
PendingFragmentKeptInBody == ~r_cut => PendingFragmentKept

\* a data line was cut in its JSON body twice in a row and is pending
CutTwiceInBody ==
    /\ r_state = "reading"
    /\ ~r_cut
    /\ CutsDataLine(r_wire, r_pos)
    /\ Len(r_buffer) = Len(DataPrefix) + 2
    /\ r_sent # <<>>

\* the events of the response that follow its malformed line
RECURSIVE AfterMalformed(_)
AfterMalformed(events) ==
    IF events = <<>> THEN <<>>
    ELSE IF Head(events) = Malformed THEN Tail(events)
    ELSE AfterMalformed(Tail(events))

IsSuffix(t, s) == Len(t) <= Len(s) /\ SubSeq(s, Len(s) - Len(t) + 1, Len(s)) = t

\* C14 (SpecReaderMalformed): when the response was read to its end, every
\* event whose well-formed line follows the malformed line was sent to the
\* queue, in order.
C14_LaterEventsDelivered ==
    r_state = "ok" => IsSuffix(AfterMalformed(r_stream), r_sent)

\* the events before the malformed line are sent, and nothing else is: the
\* malformed line and all the lines after it stay in partial_data_buffer
MalformedLineSwallowsRest ==
    (r_state = "ok" /\ ~r_cut) =>
        /\ r_sent \o <<Malformed>> \o AfterMalformed(r_stream) = r_stream
        /\ r_buffer # <<>>

(***************************************************************************)
(* Properties of the producer task and the queue (Spec).                   *)
(***************************************************************************)
\* C15 as stated: a tool is run only when the producer task of the round has
\* finished and nothing it sent is waiting in the queue.
C15_ToolsAfterProducerFinished ==
    [][tool_log' # tool_log => (producer # "running" /\ queue = <<>>)]_vars

\* C15: a tool is run only while actual_main handles a message_delta with
\* stop_reason tool_use of the current round, one tool per step, for the
\* block the finalization stands at; the queue is not read meanwhile.  The
\* producer task of the round may still be running.
C15_ToolsAfterToolUseStop ==
    [][tool_log' # tool_log =>
          /\ pc = "tool_use"
          /\ stops # <<>>
          /\ Last(stops) = "tool_use"
          /\ Len(tool_log') = Len(tool_log) + 1
          /\ Take(tool_log', Len(tool_log)) = tool_log
          /\ Last(tool_log').request = Len(requests)
          /\ Last(tool_log').index = Head(fin.keys)
          /\ queue' = queue]_vars

\* a tool of the round was run and the producer task of the round is still
\* running, with an event waiting in the queue
C15_Witness ==
    /\ pc = "tool_use"
    /\ tool_log # <<>>
    /\ Last(tool_log).request = Len(requests)
    /\ Last(tool_log).fin_no = Len(stops)
    /\ producer = "running"
    /\ queue # <<>>

\* C16 (SpecQueue): the queue never holds more than its capacity of events;
\* it holds, oldest first, exactly the events sent and not yet received, so
\* that none is dropped or reordered; a send only appends the next event,
\* a receive only takes the oldest, and while the queue is full nothing is
\* sent.
C16_QueueBounded ==
    /\ [](/\ Len(queue) <= QueueCapacity
          /\ Len(queue) <= sent
          /\ \A i \in 1..Len(queue) : queue[i] = EvPing(sent - Len(queue) + i))
    /\ [][/\ sent' \in {sent, sent + 1}
          /\ sent' = sent + 1 => queue' = Append(queue, EvPing(sent + 1))
          /\ (sent' = sent /\ queue' # queue) => (queue # <<>> /\ queue' = Tail(queue))
          /\ Len(queue) = QueueCapacity => sent' = sent]_vars

\* the queue is full and the producer has more events to send
C16_Witness ==
    /\ Len(queue) = QueueCapacity
    /\ producer = "running"
    /\ pc = "recv"
    /\ sent < MaxPings
    /\ sent > QueueCapacity

\* in the tool-call loop too the queue stays within its capacity
QueueWithinCapacity == Len(queue) <= QueueCapacity

\* C17: a request is sent only from the head of the loop, when the producer
\* task of the previous round has returned Ok, no finalization is under way
\* and the receive loop of the previous round is over (the channel was
\* closed and empty, or the loop was left on end_turn / stop_sequence); the
\* request carries the messages of that moment.  The messages are changed
\* only by actual_main, in a step of its own in which the producer task and
\* the queue do nothing.
C17_TurnsNotPipelined ==
    /\ [][requests' # requests =>
            /\ pc = "loop_head"
            /\ producer \in {"none", "ok"}
            /\ (producer = "none") = (requests = <<>>)
            /\ fin = NoFin
            /\ (queue = <<>> \/ (stops # <<>> /\ Last(stops) \in EndReasons))
            /\ requests' = Append(requests, messages)]_vars
    /\ [][messages' # messages =>
            /\ pc = "tool_use"
            /\ producer' = producer
            /\ queue' = queue
            /\ sent' = sent]_vars

\* the second request was sent, with the two messages of the first round
C17_Witness ==
    /\ Len(requests) = 2
    /\ Len(requests[1]) = 1
    /\ Len(requests[2]) = 3
    /\ producer = "running"
    /\ pc = "recv"
    /\ tool_log # <<>>

TransportError == WithContext(Error(<<"transport error">>), <<"During query">>)

\* C18: once query_anthropic has returned an error, actual_main never gets
\* back to the head of the loop and never returns Ok, no request is sent,
\* and when actual_main awaits the task it returns that error, wrapped in
\* "During query" (unless it has returned another error before).
C18_TransportFailureFatal ==
    /\ [](producer = "failed" => pc \in {"recv", "tool_use", "await", "failed"})
    /\ [][producer = "failed" =>
            /\ requests' = requests
            /\ producer' = producer
            /\ (pc = "await" => (pc' = "failed" /\ err' = TransportError))]_vars
    /\ []((pc = "failed" /\ err = TransportError) => producer = "failed")

\* the task failed after a tool round had set new_message: actual_main
\* returned the error and the second request was never sent
C18_Witness ==
    /\ pc = "failed"
    /\ producer = "failed"
    /\ err = TransportError
    /\ new_message
    /\ Len(messages) = 3
    /\ Len(requests) = 1

IsPrefix(s, t) == Len(s) <= Len(t) /\ Take(t, Len(s)) = s

\* C19: every step leaves the messages of the query as they are or extends
\* them at the end; hence the messages of every request sent so far are a
\* prefix of those of every later request and of the current messages.
C19_ConversationAppendOnly ==
    /\ [][IsPrefix(messages, messages')]_vars
    /\ [](/\ \A i, j \in 1..Len(requests) : i <= j => IsPrefix(requests[i], requests[j])
          /\ \A i \in 1..Len(requests) : IsPrefix(requests[i], messages)
          /\ IsPrefix(<<Message("user", <<"question">>)>>, messages))

\* two tool rounds have each appended their two messages
C19_Witness ==
    /\ Len(messages) = 5
    /\ Len(requests) = 2
    /\ Take(messages, 3) = requests[2]
    /\ messages[4].role = "assistant"
    /\ messages[5].role = "user"


(***************************************************************************)
(* C20: the Thoughts rollback of parse_text                                *)
(***************************************************************************)
IsTopHeadingStart(k) ==
    /\ k \in 1..Len(md_input)
    /\ md_input[k] = MdStart("Heading", 1)

\* event k opens a top-level heading whose text is "Thoughts"
IsThoughtsHeading(k) ==
    /\ IsTopHeadingStart(k)
    /\ k + 1 <= Len(md_input)
    /\ md_input[k + 1].ev = "Text"
    /\ eq_ignore_ascii_case(md_input[k + 1].text, W_Thoughts)

\* event j opens the first top-level heading after event i
NextTopHeading(i, j) ==
    /\ i < j
    /\ IsTopHeadingStart(j)
    /\ \A k \in (i + 1)..(j - 1) : ~IsTopHeadingStart(k)

\* the number of output items the event pushes (no code block is open)
Emitted(event) ==
    CASE event.ev = "Start" /\ event.tag = "Heading" -> 1
      [] event.ev = "End" /\ event.tag = "Heading" -> 1
      [] event.ev = "End" /\ event.tag = "Paragraph" -> 2
      [] event.ev = "Text" -> 1
      [] OTHER -> 0

ItemsOf(k) == {n \in 1..Len(md_st.output) : md_st.output[n].at = k}

\* the events between the Thoughts heading opened at i and event j left nothing
DiscardedBetween(i, j) == \A k \in (i + 1)..(j - 1) : ItemsOf(k) = {}

\* everything the events from j on pushed is in the output
KeptFrom(j) == \A k \in j..Len(md_input) : Cardinality(ItemsOf(k)) = Emitted(md_input[k])

\* a heading below the top level lies between events i and j
SubHeadingBetween(i, j) ==
    \E k \in (i + 1)..(j - 1) : md_input[k].ev = "Start" /\ md_input[k].tag = "Heading"

\* C20: when a top-level heading named Thoughts is later followed by a new
\* top-level heading, no output item emitted between the two headings is in
\* the final output, and the new heading and everything after it are kept
\* (as long as no further Thoughts heading follows the new one).
C20_ThoughtsDiscarded ==
    \A i, j \in 1..Len(md_input) :
        (IsThoughtsHeading(i) /\ NextTopHeading(i, j))
            => /\ DiscardedBetween(i, j)
               /\ (\A k \in j..Len(md_input) : ~IsThoughtsHeading(k)) => KeptFrom(j)

\* what the code does ensure: the same, when no other heading lies between
ThoughtsDiscardedWithoutSubHeading ==
    \A i, j \in 1..Len(md_input) :
        (IsThoughtsHeading(i) /\ NextTopHeading(i, j) /\ ~SubHeadingBetween(i, j))
            => /\ DiscardedBetween(i, j)
               /\ (\A k \in j..Len(md_input) : ~IsThoughtsHeading(k)) => KeptFrom(j)

\* a Thoughts section with a paragraph, closed by "# x"
ThoughtsSectionClosed ==
    /\ Len(md_input) >= 8
    /\ IsThoughtsHeading(1)
    /\ md_input[5] = MdText(W_x)
    /\ NextTopHeading(1, 7)
    /\ md_input[8] = MdText(W_x)
    /\ Len(md_st.output) = 2

\* the second-level heading consumed the rollback point: its items stay
SubHeadingSurvives ==
    /\ Len(md_input) = 6
    /\ IsThoughtsHeading(1)
    /\ md_input[4] = MdStart("Heading", 2)
    /\ NextTopHeading(1, 6)
    /\ ItemsOf(4) # {}


(***************************************************************************)
(* C21: the Printer loses, duplicates and reorders nothing                 *)
(***************************************************************************)
\* out is text with some of its recognized tags taken out, nothing else changed
RECURSIVE TagsRemoved(_, _)
TagsRemoved(out, text) ==
    IF text = <<>> THEN out = <<>>
    ELSE \/ /\ out # <<>>
            /\ Head(out) = Head(text)
            /\ TagsRemoved(Tail(out), Tail(text))
         \/ \E t \in TagTexts :
                /\ IsPrefix(t, text)
                /\ TagsRemoved(out, Drop(text, Len(t)))

\* text with every recognized tag taken out
RECURSIVE StripTags(_)
StripTags(text) ==
    IF text = <<>> THEN <<>>
    ELSE IF \E t \in TagTexts : IsPrefix(t, text)
    THEN StripTags(Drop(text, Len(CHOOSE t \in TagTexts : IsPrefix(t, text))))
    ELSE <<Head(text)>> \o StripTags(Tail(text))

NoFlushYet == \A i \in 1..Len(p_ops) : p_ops[i] = "print"

FirstFlush == NoFlushYet /\ p_ops' = Append(p_ops, "flush")

\* the text passed to print so far
p_printed == Take(p_text, p_pos)

\* C21: after any print calls the characters written, followed by the held
\* remainder, are the characters passed in, in order, without the recognized
\* tags (all of them when no tag stands behind an unclosed '<'); a '<' run
\* that reached the hold limit has its bracket written literally; and the
\* flush writes the held remainder without its trailing whitespace.
C21_NothingLost ==
    /\ [](NoFlushYet =>
            /\ TagsRemoved(Chars(p_out) \o p_printer.buffer, p_printed)
            /\ TagsAtScanPoints(p_text)
                   => Chars(p_out) \o p_printer.buffer = StripTags(p_printed)
            /\ (IsPrefix(S_long, p_printed) /\ p_ops # <<>>)
                   => (Chars(p_out) # <<>> /\ Head(Chars(p_out)) = "<"))
    /\ [][FirstFlush =>
            /\ Chars(p_out') = Chars(p_out) \o trim_end(p_printer.buffer)
            /\ p_printer'.buffer = <<>>]_vars

\* a '<' run of ten characters without '>', cut over two print calls, then
\* "<red>a", then flush
C21_Witness ==
    /\ p_pieces = <<S_long, S_red_a>>
    /\ p_ops = <<"print", "print", "flush">>
    /\ p_held
    /\ Chars(p_out) = S_long \o <<"a">>


(***************************************************************************)
(* C22: unrecognized tags                                                  *)
(***************************************************************************)
PrintStep == p_ops' = Append(p_ops, "print")

\* what the print call of this step works on: the buffer and the new text
p_fed == p_printer.buffer \o SubSeq(p_text, p_pos + 1, p_pos')

UnknownTags == {S_unknown, S_unknown_close}

\* C22: a print call whose text (with the held remainder) starts with a
\* complete tag of an unrecognized name, opening or closing, followed by plain
\* characters only, writes the tag as it stands and then the characters, all
\* under the style the Printer had before the call, and leaves that style.
C22_UnknownTagLiteral ==
    [][\A tag \in UnknownTags :
        (PrintStep /\ IsPrefix(tag, p_fed) /\ Find(Drop(p_fed, Len(tag)), "<") = 0)
            => /\ StyledChars(p_out') =
                    StyledChars(p_out)
                        \o [i \in 1..Len(p_fed) |-> [ch |-> p_fed[i], style |-> p_printer.style]]
               /\ p_printer'.style = p_printer.style
               /\ p_printer'.buffer = <<>>]_vars

\* "<red>a" then "</x>", cut inside the unknown closing tag: the tag is
\* written in red after the red "a", and the style is still red
C22_Witness ==
    /\ p_pieces = <<S_red_a, S_unknown_close>>
    /\ p_ops = <<"print", "print">>
    /\ p_held
    /\ StyledChars(p_out) =
            [i \in 1..5 |-> [ch |-> (<<"a">> \o S_unknown_close)[i],
                             style |-> [StyleNew EXCEPT !.fg = "red"]]]
    /\ p_printer.style = [StyleNew EXCEPT !.fg = "red"]

\* the same for the opening form "<x>" after "<bold>"
C22_WitnessOpening ==
    /\ p_pieces = <<S_bold, S_unknown>>
    /\ p_ops = <<"print", "print">>
    /\ StyledChars(p_out) =
            [i \in 1..3 |-> [ch |-> S_unknown[i], style |-> [StyleNew EXCEPT !.bold = TRUE]]]


(***************************************************************************)
(* C23: composition of styles                                              *)
(***************************************************************************)
ColourTags == {T_red, T_yellow, T_green, T_blue, T_cyan}

ColourName(tag) ==
    CASE tag = T_red -> "red"
      [] tag = T_yellow -> "yellow"
      [] tag = T_green -> "green"
      [] tag = T_blue -> "blue"
      [] tag = T_cyan -> "cyan"

\* the style with the toggle or colour of the opening tag added
StyleWith(style, tag) ==
    IF tag \in ColourTags THEN [style EXCEPT !.fg = ColourName(tag)]
    ELSE IF tag = T_bold THEN [style EXCEPT !.bold = TRUE]
    ELSE IF tag = T_italic THEN [style EXCEPT !.italic = TRUE]
    ELSE style

\* the style with only the toggle or colour the closing tag names cleared
StyleWithout(style, tag) ==
    IF tag \in ColourTags
    THEN (IF style.fg = ColourName(tag) THEN [style EXCEPT !.fg = "none"] ELSE style)
    ELSE IF tag = T_bold THEN [style EXCEPT !.bold = FALSE]
    ELSE IF tag = T_italic THEN [style EXCEPT !.italic = FALSE]
    ELSE style

\* the style composed from the complete tags of the text, in order
RECURSIVE ComposedStyle(_, _)
ComposedStyle(text, style) ==
    IF text = <<>> THEN style
    ELSE IF Head(text) = "<" THEN
        LET index == Find(text, ">")
            tag == SubSeq(text, 2, index - 1)
        IN  IF index = 0 THEN style
            ELSE IF tag # <<>> /\ Head(tag) = "/"
            THEN ComposedStyle(Drop(text, index), StyleWithout(style, Tail(tag)))
            ELSE ComposedStyle(Drop(text, index), StyleWith(style, tag))
    ELSE ComposedStyle(Tail(text), style)

\* the style of the last complete recognized tag alone: what an opening tag
\* sets, and the plain style after a closing tag
RECURSIVE LastTagStyle(_, _)
LastTagStyle(text, style) ==
    IF text = <<>> THEN style
    ELSE IF Head(text) = "<" THEN
        LET index == Find(text, ">")
            tag == SubSeq(text, 2, index - 1)
        IN  IF index = 0 THEN style
            ELSE IF tag # <<>> /\ Head(tag) = "/"
            THEN LastTagStyle(Drop(text, index),
                              IF StyleWith(StyleNew, Tail(tag)) # StyleNew THEN StyleNew ELSE style)
            ELSE LastTagStyle(Drop(text, index),
                              IF StyleWith(StyleNew, tag) # StyleNew
                              THEN StyleWith(StyleNew, tag) ELSE style)
    ELSE LastTagStyle(Tail(text), style)

\* C23: the style composes: after any print calls on a text whose tags all
\* stand where the Printer looks for them, the Printer's style is the one
\* obtained by adding the toggle or colour of each recognized opening tag and
\* clearing only the one a recognized closing tag names, and every character
\* written carries the style composed from the tags before it.
C23_StyleComposes ==
    (NoFlushYet /\ TagsAtScanPoints(p_text))
        => /\ p_printer.style = ComposedStyle(p_printed, StyleNew)
           /\ \A n \in 1..Len(StyledChars(p_out)) :
                StyledChars(p_out)[n].ch = "a"
                    => \E k \in 1..p_pos :
                        /\ p_text[k] = "a"
                        /\ StyledChars(p_out)[n].style = ComposedStyle(Take(p_text, k), StyleNew)

\* what Printer::print does: the style is that of the last recognized tag
StyleIsLastTag ==
    (NoFlushYet /\ TagsAtScanPoints(p_text))
        => p_printer.style = LastTagStyle(p_printed, StyleNew)

\* "<bold><red>a": the "a" is written red and not bold
BoldLostAtRed ==
    /\ p_pieces = <<S_bold, S_red_a>>
    /\ p_pos = Len(p_text)
    /\ NoFlushYet
    /\ StyledChars(p_out) = <<[ch |-> "a", style |-> [StyleNew EXCEPT !.fg = "red"]]>>


(***************************************************************************)
(* C30: the carry-over buffer                                              *)
(***************************************************************************)
UnterminatedTagPrefix(buffer) ==
    /\ Head(buffer) = "<"
    /\ Find(buffer, ">") = 0
    /\ Len(buffer) < HoldLimit

\* C30: after every print call (and every flush) the buffer of the Printer is
\* empty or an unterminated tag prefix: it starts with '<', holds no '>' and
\* is shorter than 10 characters.
C30_BufferBounded ==
    p_printer.buffer = <<>> \/ UnterminatedTagPrefix(p_printer.buffer)

\* nine characters of a '<' run are held; the tenth is still to come
C30_Witness ==
    /\ p_pieces[1] = S_long
    /\ p_ops = <<"print", "print">>
    /\ p_pos = 9
    /\ p_printer.buffer = Take(S_long, 9)
    /\ p_out = <<>>

\* the tenth character arrived: the run is written and nothing is held
LongRunReleased ==
    /\ p_pieces[1] = S_long
    /\ p_ops = <<"print", "print">>
    /\ p_pos = 10
    /\ p_held
    /\ p_printer.buffer = <<>>
    /\ Chars(p_out) = S_long


(***************************************************************************)
(* C24: a delta for an index without a block                               *)
(***************************************************************************)
\* the event that this step of the receive loop takes from the queue
Receives(message) ==
    /\ pc = "recv"
    /\ queue # <<>>
    /\ Head(queue) = message
    /\ received' = Append(received, message)

IsDelta(message) ==
    /\ message.type = "content_block_delta"
    /\ message.index # None
    /\ message.delta # None

\* C24: a content_block_delta whose index has no block is ignored: the
\* receive loop goes on without an error, and the blocks, the output and the
\* conversation are as before.
C24_DeltaWithoutBlockIgnored ==
    [][\A message \in BlockEvents :
        (Receives(message) /\ IsDelta(message)
            /\ message.index[1] \notin DOMAIN content_blocks)
            => /\ pc' = "recv"
               /\ err' = None
               /\ UNCHANGED <<content_blocks, stdout, messages, new_message>>]_vars

\* a tool use was started at index 1, then a text delta for index 0 came
C24_Witness ==
    /\ received = <<EvStartTool(1), EvTextDelta(0)>>
    /\ pc = "recv"
    /\ err = None
    /\ DOMAIN content_blocks = {1}
    /\ content_blocks[1].accumulated_json = <<>>
    /\ stdout = <<>>


(***************************************************************************)
(* C25: the accumulated text of a text block                               *)
(***************************************************************************)
\* the position in `received` of the event that created the block of index i
\* (0 when there is none)
RECURSIVE CreatedAt(_, _)
CreatedAt(i, n) ==
    IF n = 0 THEN 0
    ELSE IF Creates(received[n]) /\ received[n].index[1] = i THEN n
    ELSE CreatedAt(i, n - 1)

\* the events for index i received after the one that created its block
RECURSIVE EventsOf(_, _)
EventsOf(i, n) ==
    IF n > Len(received) THEN <<>>
    ELSE IF received[n].index = Some(i)
    THEN <<received[n]>> \o EventsOf(i, n + 1)
    ELSE EventsOf(i, n + 1)

IsTextDelta(message) ==
    /\ IsDelta(message)
    /\ get(message.delta[1], "type") = Some("text_delta")
    /\ get(message.delta[1], "text") # None

\* the text fragments of the events, in order
RECURSIVE TextFragments(_)
TextFragments(events) ==
    IF events = <<>> THEN <<>>
    ELSE IF IsTextDelta(Head(events))
    THEN <<Head(events).delta[1].text>> \o TextFragments(Tail(events))
    ELSE TextFragments(Tail(events))

\* a Printer that is given the header and the text fragments of the events,
\* and is flushed at each content_block_stop
RECURSIVE Rendered(_, _, _)
Rendered(events, pr, out) ==
    IF events = <<>> THEN [buffer |-> pr.buffer, style |-> pr.style, out |-> out]
    ELSE LET r == IF IsTextDelta(Head(events))
                  THEN Printer_print(pr, out, Head(events).delta[1].text)
                  ELSE IF Head(events).type = "content_block_stop"
                  THEN Printer_flush(pr, out)
                  ELSE [buffer |-> pr.buffer, style |-> pr.style, out |-> out]
         IN  Rendered(Tail(events), [buffer |-> r.buffer, style |-> r.style], r.out)

\* the header text of the event that created the block of index i
HeaderOf(i) ==
    LET content_block == received[CreatedAt(i, Len(received))].content_block[1]
    IN  IF get(content_block, "text") # None THEN content_block.text ELSE <<>>

\* the block of index i was created once, in the first turn
CreatedOnce(i) ==
    /\ Len(requests) = 1
    /\ Cardinality({n \in 1..Len(started) : started[n] = i}) = 1

\* C25: the accumulated text of a text block is the header text followed by
\* the texts of the text_delta events received for its index since it was
\* created, in the order of their arrival; and its Printer was given the same
\* fragments in the same order: its state and what it wrote are those of a
\* Printer given the header and then each fragment.
C25_AccumulatedTextIsFragments ==
    \A i \in DOMAIN content_blocks :
        content_blocks[i].kind = "text"
            => LET events == EventsOf(i, CreatedAt(i, Len(received)) + 1)
                   header == Printer_print(Printer_new, <<>>, HeaderOf(i))
                   r == Rendered(events, [buffer |-> header.buffer, style |-> header.style],
                                 header.out)
               IN  /\ content_blocks[i].accumulated_text
                          = HeaderOf(i) \o Flatten(TextFragments(events))
                   /\ content_blocks[i].printer = [buffer |-> r.buffer, style |-> r.style]
                   /\ CreatedOnce(i) => StyledChars(stdout) = StyledChars(r.out)

\* a text block with a header, a non-text delta between two text deltas
C25_Witness ==
    /\ received = <<EvStartTextWith(0, HeaderText), EvTextDelta(0),
                    EvJsonDelta(0, <<"1">>), EvTextDelta(0)>>
    /\ content_blocks[0].accumulated_text = HeaderText \o TextFragment \o TextFragment
    /\ Chars(stdout) = <<"h", "a">>
    /\ content_blocks[0].printer.buffer = <<"<", "a", "<">>


(***************************************************************************)
(* C26, C27: content_block_stop                                            *)
(***************************************************************************)
\* the block of index i has received a content_block_stop since it was created
Closed(i) ==
    /\ i \in DOMAIN content_blocks
    /\ \E n \in (CreatedAt(i, Len(received)) + 1)..Len(received) :
            received[n] = EvStop(i)

\* C26: a block is not recreated once finalized: a content_block_start for an
\* index whose block has received its content_block_stop in this turn leaves
\* the block, and so its accumulated content, as it is.
C26_NoRecreationAfterStop ==
    [][\A message \in BlockEvents :
        (Receives(message) /\ Creates(message) /\ Closed(message.index[1]))
            => content_blocks'[message.index[1]] = content_blocks[message.index[1]]]_vars

\* a text block that had accumulated "ha<" and was stopped is replaced by a
\* new block holding the header alone
BlockRecreated ==
    /\ received = <<EvStartTextWith(0, HeaderText), EvTextDelta(0), EvStop(0),
                    EvStartTextWith(0, HeaderText)>>
    /\ content_blocks[0].accumulated_text = HeaderText


\* C27: content_block_stop closes a block for good: a content_block_delta
\* received for an index after its content_block_stop changes neither the
\* accumulated content of the block nor the output.
C27_ClosedBlockIgnoresDeltas ==
    [][\A message \in BlockEvents :
        (Receives(message) /\ IsDelta(message) /\ Closed(message.index[1]))
            => UNCHANGED <<content_blocks, stdout>>]_vars

\* a text delta after the stop of its block is accumulated and printed
DeltaAfterStopApplied ==
    /\ received = <<EvStartTextWith(0, HeaderText), EvStop(0), EvTextDelta(0)>>
    /\ content_blocks[0].accumulated_text = HeaderText \o TextFragment
    /\ Chars(stdout) = <<"h", "a">>

\* a partial_json delta after the stop of its tool use is accumulated
JsonAfterStopApplied ==
    /\ received = <<EvStartTool(1), EvStop(1), EvJsonDelta(1, <<"1">>)>>
    /\ content_blocks[1].accumulated_json = <<"1">>


(***************************************************************************)
(* C28: the blocks finalized at stop_reason tool_use                       *)
(***************************************************************************)
\* the Tool::run calls of the tool_use arm that is being executed
RunsOfThisArm ==
    {n \in 1..Len(tool_log) :
        tool_log[n].request = Len(requests) /\ tool_log[n].fin_no = Len(stops)}

\* C28: in the tool_use arm exactly the blocks that have received their
\* content_block_stop are finalized: every block echoed into the assistant
\* message and every tool run belongs to a closed block, and at the end of the
\* arm every closed block has been visited.
C28_OnlyClosedBlocksFinalized ==
    pc = "tool_use"
        => /\ \A n \in 1..Len(fin.visited) : Closed(fin.visited[n])
           /\ \A n \in RunsOfThisArm : Closed(tool_log[n].index)
           /\ fin.keys = <<>>
                => \A i \in DOMAIN content_blocks : Closed(i) => i \in Range(fin.visited)

\* what the tool_use arm does: it visits every block of the turn
AllBlocksFinalized ==
    (pc = "tool_use" /\ fin.keys = <<>>) => Range(fin.visited) = DOMAIN content_blocks

\* a tool use that never received content_block_stop was echoed and run
OpenBlockExecuted ==
    /\ received = <<EvStartTool(1), EvJsonDelta(1, <<"1">>), EvMessageDelta("tool_use")>>
    /\ pc = "tool_use"
    /\ fin.keys = <<>>
    /\ Len(fin.assistant) = 1
    /\ Len(tool_log) = 1
    /\ tool_log[1].index = 1


(***************************************************************************)
(* C29: a tool invocation is consumed once                                 *)
(***************************************************************************)
\* the Tool::run calls made in this turn for the block of index i
RunsOf(i) ==
    {n \in 1..Len(tool_log) : tool_log[n].request = Len(requests) /\ tool_log[n].index = i}

\* the block of index i is a tool use that was created once in this turn
ToolUseCreatedOnce(i) ==
    /\ i \in DOMAIN content_blocks
    /\ content_blocks[i].kind = "tool_use"
    /\ Cardinality({n \in 1..Len(started) : started[n] = i}) = 1

\* the tool_use arm has visited every block, and found the binaries of the
\* tool of index i installed
ArmEndedWithPrerequisites(i) ==
    /\ pc = "tool_use"
    /\ fin.keys = <<>>
    /\ \E n \in 1..Len(fin.how) : fin.how[n].index = i /\ fin.how[n].missing = None

\* C29: whatever events a turn brings, the tool of a tool-use block is run at
\* most once, and exactly once when the turn ends with stop_reason tool_use
\* and the prerequisites of the tool are satisfied.
C29_ToolRunOnce ==
    \A i \in Indices :
        ToolUseCreatedOnce(i)
            => /\ Cardinality(RunsOf(i)) <= 1
               /\ ArmEndedWithPrerequisites(i) => Cardinality(RunsOf(i)) = 1

\* what the code ensures: one run at most for each execution of the tool_use
\* arm, and one at least when the arm ends with the prerequisites satisfied
ToolRunOncePerArm ==
    \A i \in Indices :
        ToolUseCreatedOnce(i)
            => /\ Cardinality(RunsOf(i) \cap RunsOfThisArm) <= 1
               /\ ArmEndedWithPrerequisites(i)
                    => Cardinality(RunsOf(i) \cap RunsOfThisArm) = 1

\* two message_delta events with stop_reason tool_use: the tool ran twice on
\* the same input
ToolRunTwice ==
    /\ received = <<EvStartTool(1), EvJsonDelta(1, <<"1">>),
                    EvMessageDelta("tool_use"), EvMessageDelta("tool_use")>>
    /\ Len(requests) = 1
    /\ Len(tool_log) = 2
    /\ tool_log[1].input = tool_log[2].input
    /\ tool_log[1].id = tool_log[2].id


(***************************************************************************)
(* C31: the Printers at the end of a turn                                  *)
(***************************************************************************)
\* the receive loop of the turn has ended
TurnOver == pc \in {"await", "loop_head", "done"} /\ requests # <<>>

\* C31: at the end of every turn the Printer of each text block has been
\* flushed: its carry-over buffer is empty, whatever the stop reason and
\* whether or not a content_block_stop was received for the block.
C31_FlushedAtTurnEnd ==
    TurnOver
        => \A i \in DOMAIN content_blocks :
                content_blocks[i].kind = "text" => content_blocks[i].printer.buffer = <<>>

\* the last event received for index i is a content_block_stop
StoppedLast(i) ==
    LET events == EventsOf(i, CreatedAt(i, Len(received)) + 1)
    IN  events # <<>> /\ events[Len(events)] = EvStop(i)

\* what the code ensures: the buffer is empty when content_block_stop is the
\* last event the block received
FlushedWhenStoppedLast ==
    \A i \in DOMAIN content_blocks :
        (content_blocks[i].kind = "text" /\ StoppedLast(i))
            => content_blocks[i].printer.buffer = <<>>

\* the turn ended with end_turn and no content_block_stop: the '<' of "a<"
\* is still held and was never written
HeldAtTurnEnd ==
    /\ received = <<EvStartTextWith(0, HeaderText), EvTextDelta(0),
                    EvMessageDelta("end_turn")>>
    /\ pc = "done"
    /\ content_blocks[0].printer.buffer = <<"<">>
    /\ Chars(stdout) = <<"h", "a">>


(***************************************************************************)
(* C32, C33: what triggers the Thoughts rollback, and how often            *)
(***************************************************************************)
\* the event that this step of parse_text handles
Handles(event) == md_input' = Append(md_input, event)

\* C32: a heading below the top level that follows a Thoughts heading
\* discards nothing: the output before it is still there after it.
C32_SubHeadingKeepsOutput ==
    [][(Handles(MdStart("Heading", 2)) /\ \E i \in 1..Len(md_input) : IsThoughtsHeading(i))
            => IsPrefix(md_st.output, md_st'.output)]_vars

\* "# Thoughts", a paragraph, then "## ...": only the new heading is left
SubHeadingDiscards ==
    /\ md_input = <<MdStart("Heading", 1), MdText(W_Thoughts), MdEnd("Heading"),
                    MdStart("Paragraph", 0), MdText(W_x), MdEnd("Paragraph"),
                    MdStart("Heading", 2)>>
    /\ md_st.output = <<TextOutput("Text", HeadingPrefix(2), 7)>>

\* the event is the text "Thoughts" of a top-level heading
ThoughtsText(event) ==
    /\ event.ev = "Text"
    /\ eq_ignore_ascii_case(event.text, W_Thoughts)
    /\ md_st.current_heading_level = 1

\* C33: the rollback point is one optional value: only the text of a
\* top-level Thoughts heading sets it; the output is truncated only when it
\* is set, by a heading, which unsets it; and between two truncations a
\* Thoughts heading was read, however many headings follow one.
C33_SingleRollbackPoint ==
    /\ [](/\ md_st.thoughts_heading = None \/ Len(md_st.thoughts_heading) = 1
          /\ \A m, n \in 1..Len(md_st.cuts) :
                m < n => \E k \in md_st.cuts[m]..md_st.cuts[n] : IsThoughtsHeading(k))
    /\ [][\A event \in MdNextEvents(md_input) : Handles(event) =>
            /\ (md_st'.thoughts_heading # None /\ md_st'.thoughts_heading # md_st.thoughts_heading)
                    => ThoughtsText(event)
            /\ ~IsPrefix(md_st.output, md_st'.output)
                    => /\ md_st.thoughts_heading # None
                       /\ md_st'.thoughts_heading = None
                       /\ event.ev = "Start" /\ event.tag = "Heading"]_vars

\* a Thoughts heading followed by three headings: one truncation, at the
\* first of them
C33_Witness ==
    /\ md_input = <<MdStart("Heading", 1), MdText(W_Thoughts), MdEnd("Heading"),
                    MdStart("Heading", 1), MdEnd("Heading"),
                    MdStart("Heading", 2), MdEnd("Heading"), MdStart("Heading", 1)>>
    /\ md_st.cuts = <<4>>
    /\ md_st.thoughts_heading = None


(***************************************************************************)
(* C34: the prefixes of list items                                         *)
(***************************************************************************)
\* the lists open after the events, outermost first, each with its first
\* ordinal (None for an unordered list) and the number of its items so far
RECURSIVE ListsOf(_)
ListsOf(input) ==
    IF input = <<>> THEN <<>>
    ELSE LET rest == ListsOf(Take(input, Len(input) - 1))
             event == input[Len(input)]
         IN  IF event.ev = "Start" /\ event.tag = "List"
             THEN Append(rest, [index |-> event.index, items |-> 0])
             ELSE IF event = MdEnd("List") THEN Take(rest, Len(rest) - 1)
             ELSE IF event = MdStart("Item", 0)
             THEN [rest EXCEPT ![Len(rest)].items = @ + 1]
             ELSE rest

\* the prefix of the item that event k opens: the indent of its nesting level
\* (one space, two more for each enclosing list), then the next ordinal of its
\* own list or a bullet
ExpectedItemPrefix(k) ==
    LET lists == ListsOf(Take(md_input, k - 1))
        own == lists[Len(lists)]
        spaces == [i \in 1..(1 + 2 * (Len(lists) - 1)) |-> " "]
    IN  IF own.index = None THEN spaces \o <<"bullet", " ">>
        ELSE spaces \o format_num(own.index[1] + own.items) \o <<".", " ">>

ItemPrefixAsExpected(k) ==
    \E n \in 1..Len(md_st.output) :
        md_st.output[n] = TextOutput("Text", ExpectedItemPrefix(k), k)

\* C34: each list keeps its own counter and indent: every item is prefixed
\* with the indent of its nesting level and the next ordinal of its own list,
\* or a bullet in an unordered list, also when it follows a nested list that
\* has ended.
C34_ItemPrefixOfOwnList ==
    \A k \in 1..Len(md_input) : md_input[k] = MdStart("Item", 0) => ItemPrefixAsExpected(k)

\* a nested list has ended before event k inside a list that is still open
NestedListEndedBefore(k) ==
    \E n \in 1..(k - 1) : md_input[n] = MdEnd("List") /\ ListsOf(Take(md_input, n)) # <<>>

\* what the code ensures: the same for the items that no ended nested list
\* precedes
ItemPrefixBeforeNestedEnd ==
    \A k \in 1..Len(md_input) :
        (md_input[k] = MdStart("Item", 0) /\ ~NestedListEndedBefore(k))
            => ItemPrefixAsExpected(k)

\* "1. x" with a nested bullet list, then the second item of the ordered
\* list: it gets a bullet instead of "2. "
OuterItemGetsBullet ==
    /\ md_input = <<MdList(Some(1)), MdStart("Item", 0), MdText(W_x),
                    MdList(None), MdStart("Item", 0), MdEnd("Item"), MdEnd("List"),
                    MdEnd("Item"), MdStart("Item", 0)>>
    /\ md_st.output[Len(md_st.output)] = TextOutput("Text", <<" ", "bullet", " ">>, 9)

\* two ordered lists nested: the inner items count 1, 2 at indent 3
NestedOrdinals ==
    /\ Len(md_input) = 7
    /\ md_input[3] = MdList(Some(1))
    /\ md_input[6] = MdStart("Item", 0)
    /\ md_input[7] = MdEnd("Item")
    /\ md_st.output[Len(md_st.output) - 1]
            = TextOutput("Text", <<" ", " ", " ", "2", ".", " ">>, 6)


(***************************************************************************)
(* C35: the turn completes                                                 *)
(***************************************************************************)
\* the consumer has left the receive loop and waits for the producer task
ConsumerWaits == pc = "await"

\* C35: once the consumer has stopped receiving and waits for the producer
\* task, the producer terminates, whatever the rest of the response is.
C35_ProducerTerminates == ConsumerWaits ~> (producer # "running")

\* the events the response still holds fit into the free slots of the queue
RemainderFits == MaxPings - sent <= QueueCapacity - Len(queue)

\* what the code ensures: the producer terminates when the rest of the
\* response fits into the queue
ProducerTerminatesWhenFits == (ConsumerWaits /\ RemainderFits) ~> (producer # "running")

\* the producer waits in send for a slot of a queue that nobody reads
ProducerBlocked ==
    /\ ConsumerWaits
    /\ producer = "running"
    /\ sent < MaxPings
    /\ ~HasRoom(queue)

\* once blocked, always blocked
BlockedForever == [][ProducerBlocked => ProducerBlocked']_vars


(***************************************************************************)
(* C36: a parse failure during the finalization of a tool round            *)
(***************************************************************************)
\* the tool_use arm was left by "?" at the block at the head of fin.keys,
\* whose accumulated JSON does not parse
ParseFailedInFinalize ==
    /\ pc = "failed"
    /\ fin.keys # <<>>
    /\ ~get_original_content_block(content_blocks[Head(fin.keys)]).ok
    /\ err = get_original_content_block(content_blocks[Head(fin.keys)]).error

\* C36: when the accumulated JSON of a tool-use block fails to parse in the
\* tool_use arm, no tool has been executed in that arm.
C36_NoToolRunOnParseFailure == ParseFailedInFinalize => RunsOfThisArm = {}

\* what the code ensures: the tool of the failing block and the tools of the
\* blocks after it have not been executed
NoToolRunFromFailureOn ==
    ParseFailedInFinalize
        => \A n \in RunsOfThisArm : tool_log[n].index < Head(fin.keys)

\* the tool of block 0 has run, then the JSON of block 1 fails to parse
ToolRanBeforeParseFailure ==
    /\ ParseFailedInFinalize
    /\ Head(fin.keys) = 1
    /\ \E n \in RunsOfThisArm : tool_log[n].index = 0


(***************************************************************************)
(* C37: the conversation after a fatal condition                           *)
(***************************************************************************)
\* the loop was aborted during a turn
TurnAborted == pc = "failed" /\ requests # <<>>

\* the conversation that was sent for the turn
SentConversation == requests[Len(requests)]

\* C37: when the loop is aborted during a turn, the conversation is the one
\* that was sent for that turn: the failed turn has appended no message.
C37_FailedTurnAppendsNothing == TurnAborted => messages = SentConversation

\* what the code ensures: the same when no tool round was completed in the
\* turn before the fatal condition
FailedTurnWithoutToolRound ==
    (TurnAborted /\ ~new_message) => messages = SentConversation

\* a tool round of the turn had pushed its two messages when the error event
\* came
AbortedAfterToolRound ==
    /\ TurnAborted
    /\ err = Error(<<"Received error message">>)
    /\ new_message
    /\ Len(messages) = Len(SentConversation) + 2


(***************************************************************************)
(* C38: message_stop and the events after it                               *)
(***************************************************************************)
\* no event of the sequence follows a message_stop
StopIsLast(events) ==
    \A n \in 1..(Len(events) - 1) : events[n].type # "message_stop"

\* C38: message_stop is the last event the producer forwards: after it has
\* sent a message_stop it sends no further event, whether later lines come in
\* the same chunk or in later chunks.
C38_NothingAfterMessageStop == StopIsLast(r_sent)

\* what the code ensures: among the events sent for one chunk nothing follows
\* a message_stop
StopIsLastOfChunk ==
    [][StopIsLast(SubSeq(r_sent', Len(r_sent) + 1, Len(r_sent')))]_vars

\* the whole response came as one chunk: the events after message_stop were
\* not sent
TailOfChunkSkipped ==
    /\ r_pos = Len(r_wire)
    /\ r_sent = <<EvStartText(0), EvPlain("message_stop")>>

\* the events after message_stop came in a later chunk and were sent
TailOfLaterChunkSent ==
    /\ r_pos = Len(r_wire)
    /\ r_stream = <<EvStartText(0), EvPlain("message_stop"), EvStop(0)>>
    /\ r_sent = r_stream


(***************************************************************************)
(* C39: the crates.io rate limit                                           *)
(***************************************************************************)
\* C39: between any two consecutive crates.io requests of the tool, in one
\* or several invocations, at least CRATES_IO_RATE_LIMIT elapses.
C39_RateLimitRespected ==
    \A n \in 1..(Len(sv_times) - 1) :
        sv_times[n + 1] - sv_times[n] >= CRATES_IO_RATE_LIMIT

\* what the code does: the time of the last request is never recorded, so
\* run never sleeps and every request is issued at the time its turn begins
LastRequestNeverRecorded ==
    /\ [](sv_last = None)
    /\ [][sv_times' # sv_times => sv_times' = Append(sv_times, sv_now)]_vars

\* two requests of one invocation issued within the same tick
RequestsBackToBack ==
    /\ sv_runs = 1
    /\ Len(sv_times) = 2
    /\ sv_times[2] = sv_times[1]


(***************************************************************************)
(* C40: what read_files reads and remembers                                *)
(***************************************************************************)
\* the paths of the entries the user selected in the prompt
SelectedPaths == {rf_call.paths[i] : i \in rf_call.selection}

\* the content of a path is returned only if the user selected the path in
\* the prompt of the invocation, or if no prompt was shown because every
\* requested path was in the remembered allow-list
ReturnedOnlyIfPermitted ==
    \A p \in rf_call.returned :
        \/ rf_call.prompted /\ p \in SelectedPaths
        \/ ~rf_call.prompted /\ \A i \in 1..Len(rf_call.paths) :
                                    rf_call.paths[i] \in rf_call.before

\* the path is not read, and not in the allow-list if that was written back
NotReadNotRemembered(p) ==
    /\ \A i \in 1..Len(rf_call.read) : rf_call.read[i] # p
    /\ rf_call.result = "ok" => p \notin rf_cache

\* C40 as stated: a path is returned only if permitted, and the path of every
\* entry the user deselects is not read and is removed from the allow-list
\* that is written back.
C40_DeselectedEntryNotRead ==
    /\ ReturnedOnlyIfPermitted
    /\ rf_call.prompted
        => \A i \in 1..Len(rf_call.paths) :
                i \notin rf_call.selection => NotReadNotRemembered(rf_call.paths[i])

\* C40: a path is returned only if permitted, and a path that the user
\* selects at none of its entries in the prompt is not read and is removed
\* from the allow-list that is written back.
C40_ReadOnlyIfPermitted ==
    /\ ReturnedOnlyIfPermitted
    /\ rf_call.prompted
        => \A i \in 1..Len(rf_call.paths) :
                rf_call.paths[i] \notin SelectedPaths
                    => NotReadNotRemembered(rf_call.paths[i])

\* /cwd/a was remembered, /cwd/b was not; in the prompt the user selects b
\* and deselects a: b is returned, a is not read and no longer remembered
C40_Witness ==
    /\ rf_call.prompted
    /\ rf_call.before = {join(current_dir, <<"a">>)}
    /\ SelectedPaths = {join(current_dir, <<"b">>)}
    /\ rf_call.denied = {join(current_dir, <<"a">>)}
    /\ rf_call.returned = {join(current_dir, <<"b">>)}
    /\ rf_cache = {join(current_dir, <<"b">>)}

\* "a" and "/cwd/a" are two entries of the prompt for one path: the user
\* selects one and deselects the other, and the path is read
SamePathTwice ==
    /\ rf_call.prompted
    /\ Len(rf_call.paths) = 2
    /\ rf_call.paths[1] = rf_call.paths[2]
    /\ rf_call.selection = {1}
    /\ rf_call.read = <<join(current_dir, <<"a">>)>>

====
